---- MODULE Spec2Model ----
(***************************************************************************)
(* Verification model of ElectricityLCI:                                   *)
(*   - consumption_mix.py : check_trading_normalized, trading_mix_fuels    *)
(*   - olca_jsonld_writer.py : write, clean_json and the entity store      *)
(* Amounts are exact rationals <<numerator, denominator>>; <<0,0>> is the  *)
(* float NaN and <<1,0>> is +inf, the two non-numbers a division of        *)
(* non-negative floats can produce.                                        *)
(***************************************************************************)
EXTENDS Integers, Sequences, FiniteSets, TLC

VARIABLES
    gen_mix,          \* trading_mix_fuels argument: set of generation-mix rows
    trading_matrix,   \* the caller's trade matrix, [row region -> [column region -> amount]]
    full_gen_df,      \* value returned by trading_mix_fuels (set of rows), "none" before
    mixPc,            \* "ready" | "done" | "error" (AssertionError at line 183)
    tm0,              \* the matrix as the caller first supplied it
    normCalls,        \* number of check_trading_normalized calls made so far
    processes,        \* the caller's dictionary of process dictionaries (write updates it)
    processes0,       \* the process dictionaries as the caller first built them
    archive,          \* the JSON-LD zip archive on disk
    lastOp,           \* the last call and how it ended: "none" | "write" | "clean" | "clean_raised" | "clean_nofile" | "build" | "build_raised" | "changed"
    writes,           \* number of write calls made so far
    product_systems,  \* the product systems the last call of build_product_systems made
    netPc,            \* position in run_net_trade: [phase, i] (i-th scope of the phase's loop)
    cons_mix_dicts,   \* run_net_trade's cons_mix_dicts: scope -> consumption-mix process dictionaries
    dist_mix_dicts,   \* run_net_trade's dist_mix_dicts: scope -> distribution process dictionaries
    td_by_region,     \* run_net_trade's dist_mix_df_dict: scope -> rows of the loss table
    con_mix_args,     \* the arguments of consumption_mix_dictionary (spreadsheet columns)
    consumption_dict, \* the dictionary consumption_mix_dictionary returns
    conPc,            \* "idle" | "ready" | "done"
    specs,            \* the configuration read from the model's YAML file
    model_class,      \* the ModelSpecs object build_model_class returns
    cfgPc,            \* "idle" | "ready" | "built" | "raised"
    datastore,        \* the files of the year's directory of the datastore: file -> "absent" | "valid" | "partial"
    tmpdir,           \* the files of the datastore's tmp directory, likewise
    dl,               \* the rounds of the last download and how it ended
    upd,              \* the last call of update: its arguments and the datastore before it
    cemsPc            \* "idle" | "ready" | "downloaded" | "updated"

mixVars == <<gen_mix, trading_matrix, full_gen_df, mixPc, tm0, normCalls>>

graphVars == <<processes, processes0, archive, lastOp, writes, product_systems>>

tradeVars == <<netPc, cons_mix_dicts, dist_mix_dicts, td_by_region>>

conVars == <<con_mix_args, consumption_dict, conPc>>

cfgVars == <<specs, model_class, cfgPc>>

cemsVars == <<datastore, tmpdir, dl, upd, cemsPc>>

\* the variables of the parts modelled apart from the mixes, the writer and run_net_trade
auxVars == <<conVars, cfgVars, cemsVars>>

vars == <<gen_mix, trading_matrix, full_gen_df, mixPc, tm0, normCalls,
          processes, processes0, archive, lastOp, writes, product_systems,
          netPc, cons_mix_dicts, dist_mix_dicts, td_by_region,
          con_mix_args, consumption_dict, conPc,
          specs, model_class, cfgPc,
          datastore, tmpdir, dl, upd, cemsPc>>

----------------------------------------------------------------------------
(* Bounds of the model *)

\* cell amounts are k/5 for k in 0..MaxNum
MaxNum == 6

\* how often a caller may run a normalisation on the same matrix
MaxNormCalls == 2

\* longest exchange list of a process dictionary under test
MaxExch == 2

\* how often the caller's process dictionaries are written to the archive
MaxWrites == 2

\* loss rates of the loss tables are k/20 for k in 1..MaxLoss
MaxLoss == 2

\* number of columns of the surplus-pool trade matrix
MaxCols == 2

\* number of URLs of a direct call of _download_default or _download_FTP
MaxUrls == 3

\* quarters of a year (range(1, 5) in the code: the model keeps fewer files)
MaxQtr == 2

----------------------------------------------------------------------------
(* Exact arithmetic on float amounts *)

RECURSIVE GCD(_, _)
GCD(a, b) ==
    IF b = 0 THEN a ELSE GCD(b, a % b)

NaN == <<0, 0>>

Inf == <<1, 0>>

Frac(n, d) ==
    LET g == GCD(n, d) IN <<n \div g, d \div g>>

Zero == <<0, 1>>

One == <<1, 1>>

IsNaN(x) == x = NaN

IsNum(x) == x[2] # 0

RAdd(x, y) ==
    IF IsNaN(x) \/ IsNaN(y) THEN NaN
    ELSE IF x = Inf \/ y = Inf THEN Inf
    ELSE Frac(x[1] * y[2] + y[1] * x[2], x[2] * y[2])

RMul(x, y) ==
    IF IsNaN(x) \/ IsNaN(y) THEN NaN
    ELSE IF x = Inf \/ y = Inf
         THEN (IF x = Zero \/ y = Zero THEN NaN ELSE Inf)
    ELSE Frac(x[1] * y[1], x[2] * y[2])

\* float division of non-negative amounts: 0/0 is nan, x/0 is inf
RDiv(x, y) ==
    IF IsNaN(x) \/ IsNaN(y) THEN NaN
    ELSE IF y = Inf THEN (IF x = Inf THEN NaN ELSE Zero)
    ELSE IF x = Inf THEN Inf
    ELSE IF y = Zero THEN (IF x = Zero THEN NaN ELSE Inf)
    ELSE Frac(x[1] * y[2], x[2] * y[1])

\* x > y on floats: every comparison with nan is False
RGt(x, y) ==
    IF IsNaN(x) \/ IsNaN(y) THEN FALSE
    ELSE IF x = Inf THEN y # Inf
    ELSE IF y = Inf THEN FALSE
    ELSE x[1] * y[2] > y[1] * x[2]

RSub(x, y) ==
    Frac(x[1] * y[2] - y[1] * x[2], x[2] * y[2])

----------------------------------------------------------------------------
(* consumption_mix.py *)

\* the matrix index/columns, in DataFrame order
MatrixRegions == <<"X", "Y">>

Regions == {MatrixRegions[i] : i \in 1..Len(MatrixRegions)}

\* a region that may have generation data but is absent from the matrix
OutsideRegion == "W"

Fuels == {"coal", "gas"}

\* pandas Series.sum(): skips nan, the sum of nothing is 0
RECURSIVE SumSeq(_)
SumSeq(s) ==
    IF s = <<>> THEN Zero
    ELSE IF IsNaN(Head(s)) THEN SumSeq(Tail(s))
    ELSE RAdd(Head(s), SumSeq(Tail(s)))

\* trading_matrix[col].sum()
ColSum(m, col) ==
    SumSeq([i \in 1..Len(MatrixRegions) |-> m[MatrixRegions[i]][col]])

\* a plausible slip: the divisor taken along the wrong axis (row col instead of column col)
check_trading_normalized_rowsum(m) ==
    LET RowSum(r) == SumSeq([i \in 1..Len(MatrixRegions) |-> m[r][MatrixRegions[i]]])
    IN IF RGt(ColSum(m, MatrixRegions[1]), One)
       THEN [r \in Regions |-> [c \in Regions |-> RDiv(m[r][c], RowSum(c))]]
       ELSE m

\* check_trading_normalized: the matrix it leaves in place of m
check_trading_normalized(m) ==
    IF RGt(ColSum(m, MatrixRegions[1]), One)
    THEN [r \in Regions |-> [c \in Regions |-> RDiv(m[r][c], ColSum(m, c))]]
    ELSE m

\* DataFrame.dropna() on the generation mix: rows holding a nan are dropped
DropNa(rows) ==
    {r \in rows : ~IsNaN(r.Electricity) /\ ~IsNaN(r.Generation_Ratio)}

\* the assertion of line 183
IndexIsSubset(gm) ==
    {r.Subregion : r \in DropNa(gm)} \subseteq Regions

\* lines 187-218: one row per (consuming region, generation-mix row), the
\* trading amount aligned on the row's Subregion, nan rows dropped, only
\* positive ratios kept
MixRows(gm, m) ==
    LET all == {[Subregion |-> R,
                 from_region |-> g.Subregion,
                 FuelCategory |-> g.FuelCategory,
                 trading_gen_ratio |-> RMul(m[g.Subregion][R], g.Generation_Ratio)]
                : R \in Regions, g \in DropNa(gm)}
    IN {r \in all : ~IsNaN(r.trading_gen_ratio) /\ RGt(r.trading_gen_ratio, Zero)}

Row(reg, fuel, elec, ratio) ==
    [Subregion |-> reg, FuelCategory |-> fuel, Electricity |-> elec,
     Generation_Ratio |-> ratio]

\* generation mixes a region may come with; each one's ratios sum to 1
\* (or the region has no usable row)
MixChoices(reg) ==
    { {},
      {Row(reg, "coal", Frac(80, 1), Frac(4, 5)), Row(reg, "gas", Frac(20, 1), Frac(1, 5))},
      {Row(reg, "gas", Frac(50, 1), One)},
      {Row(reg, "gas", NaN, NaN)} }

AmountSet == {Frac(k, 5) : k \in 0..MaxNum}

\* no archive on disk yet (the file does not exist)
NoArchive == [exists |-> FALSE, Process |-> <<>>, Flow |-> <<>>]

\* the writer has not been used
GraphIdle ==
    /\ processes = <<>>
    /\ processes0 = <<>>
    /\ archive = NoArchive
    /\ lastOp = "none"
    /\ writes = 0
    /\ product_systems = <<>>

\* the consumption-mix functions have not been used
MixIdle ==
    /\ gen_mix = {}
    /\ trading_matrix = <<>>
    /\ tm0 = <<>>
    /\ full_gen_df = "none"
    /\ mixPc = "idle"
    /\ normCalls = 0

\* consumption_mix_dictionary has not been called
ConIdle ==
    /\ con_mix_args = <<>>
    /\ consumption_dict = <<>>
    /\ conPc = "idle"

\* build_model_class has not been called
CfgIdle ==
    /\ specs = <<>>
    /\ model_class = <<>>
    /\ cfgPc = "idle"

\* the CEMS datastore has not been used
CemsIdle ==
    /\ datastore = <<>>
    /\ tmpdir = <<>>
    /\ dl = <<>>
    /\ upd = <<>>
    /\ cemsPc = "idle"

\* none of the parts modelled apart has been used
AuxIdle ==
    /\ ConIdle
    /\ CfgIdle
    /\ CemsIdle

\* run_net_trade has not been called
TradeIdle ==
    /\ netPc = [phase |-> "idle", i |-> 0]
    /\ cons_mix_dicts = <<>>
    /\ dist_mix_dicts = <<>>
    /\ td_by_region = <<>>

MixInit ==
    /\ \E mx \in MixChoices("X"), my \in MixChoices("Y"),
          mw \in {{}, {Row(OutsideRegion, "gas", Frac(50, 1), One)}} :
          gen_mix = mx \cup my \cup mw
    /\ trading_matrix \in [Regions -> [Regions -> AmountSet]]
    /\ tm0 = trading_matrix
    /\ full_gen_df = "none"
    /\ mixPc = "ready"
    /\ normCalls = 0
    /\ GraphIdle
    /\ TradeIdle
    /\ AuxIdle

\* a caller runs check_trading_normalized(trading_matrix) on its matrix
CallCheckTradingNormalized ==
    /\ mixPc = "ready"
    /\ normCalls < MaxNormCalls
    /\ trading_matrix' = check_trading_normalized(trading_matrix)
    /\ normCalls' = normCalls + 1
    /\ UNCHANGED <<gen_mix, full_gen_df, mixPc, tm0>>
    /\ UNCHANGED graphVars
    /\ UNCHANGED tradeVars
    /\ UNCHANGED auxVars

\* trading_mix_fuels(gen_mix, trading_matrix), assertion passing
TradingMixFuels ==
    /\ mixPc = "ready"
    /\ IndexIsSubset(gen_mix)
    /\ trading_matrix' = check_trading_normalized(trading_matrix)
    /\ full_gen_df' = MixRows(gen_mix, trading_matrix')
    /\ mixPc' = "done"
    /\ normCalls' = normCalls + 1
    /\ UNCHANGED <<gen_mix, tm0>>
    /\ UNCHANGED graphVars
    /\ UNCHANGED tradeVars
    /\ UNCHANGED auxVars

\* trading_mix_fuels(gen_mix, trading_matrix), AssertionError at line 183
TradingMixFuelsAssert ==
    /\ mixPc = "ready"
    /\ ~IndexIsSubset(gen_mix)
    /\ mixPc' = "error"
    /\ UNCHANGED <<gen_mix, trading_matrix, full_gen_df, tm0, normCalls>>
    /\ UNCHANGED graphVars
    /\ UNCHANGED tradeVars
    /\ UNCHANGED auxVars

MixNext ==
    \/ CallCheckTradingNormalized
    \/ TradingMixFuels
    \/ TradingMixFuelsAssert

SpecMix == MixInit /\ [][MixNext]_vars

----------------------------------------------------------------------------
(* Reading the result of trading_mix_fuels *)

FuelOrder == <<"coal", "gas">>

HasMix(gm, reg) ==
    \E g \in DropNa(gm) : g.Subregion = reg

\* Generation_Ratio of (reg, fuel), 0 when the region has no such row
GenRatio(gm, reg, fuel) ==
    IF \E g \in DropNa(gm) : g.Subregion = reg /\ g.FuelCategory = fuel
    THEN (CHOOSE g \in DropNa(gm) : g.Subregion = reg /\ g.FuelCategory = fuel).Generation_Ratio
    ELSE Zero

\* trading_gen_ratio of the output row (R, P, fuel), 0 when there is no such row
OutRatio(df, R, P, fuel) ==
    IF \E r \in df : r.Subregion = R /\ r.from_region = P /\ r.FuelCategory = fuel
    THEN (CHOOSE r \in df : r.Subregion = R /\ r.from_region = P
                            /\ r.FuelCategory = fuel).trading_gen_ratio
    ELSE Zero

\* sum of R's ratios coming from source region P
FromShare(df, R, P) ==
    SumSeq([k \in 1..Len(FuelOrder) |-> OutRatio(df, R, P, FuelOrder[k])])

\* sum of R's ratios of one fuel over all source regions
FuelShare(df, R, fuel) ==
    SumSeq([i \in 1..Len(MatrixRegions) |-> OutRatio(df, R, MatrixRegions[i], fuel)])

\* sum of all of R's ratios
RegionTotal(df, R) ==
    SumSeq([i \in 1..Len(MatrixRegions) |-> FromShare(df, R, MatrixRegions[i])])

\* sum over the partners P # R of f(R,P) * w(P)
PartnerSum(m, R, w(_)) ==
    SumSeq([i \in 1..Len(MatrixRegions) |->
              IF MatrixRegions[i] = R THEN Zero
              ELSE RMul(m[MatrixRegions[i]][R], w(MatrixRegions[i]))])

OutRegions(df) == {r.Subregion : r \in df}

----------------------------------------------------------------------------
(* Claims on the consumption mix *)

\* C1: for every consuming region R in the output of trading_mix_fuels, the
\* trading_gen_ratio values of R over all source regions and fuels sum to 1.
C1_RatiosSumToOne ==
    mixPc = "done" =>
        \A R \in OutRegions(full_gen_df) : RegionTotal(full_gen_df, R) = One

\* C2: the consumption mix of R is the blend of every partner's mix weighted
\* by f(R,P) plus R's own mix weighted by the residual 1 - sum of f(R,P), P # R.
C2_WeightedBlendWithResidual ==
    mixPc = "done" =>
        \A R \in Regions : HasMix(gen_mix, R) =>
            \A fuel \in Fuels :
                LET one(P) == One
                    gr(P) == GenRatio(gen_mix, P, fuel)
                    residual == RSub(One, PartnerSum(trading_matrix, R, one))
                IN FuelShare(full_gen_df, R, fuel)
                     = RAdd(PartnerSum(trading_matrix, R, gr),
                            RMul(residual, GenRatio(gen_mix, R, fuel)))

C8_PerColumnNormalization ==
    (normCalls = 1 /\ mixPc = "ready") =>
        \A c \in Regions :
            /\ IF RGt(ColSum(tm0, c), One)
               THEN \A r \in Regions :
                       trading_matrix[r][c] = RDiv(tm0[r][c], ColSum(tm0, c))
               ELSE \A r \in Regions : trading_matrix[r][c] = tm0[r][c]
            /\ ~RGt(ColSum(trading_matrix, c), One)

\* C9: a region with generation data whose matrix cells (its column and its
\* row) are all zero appears in the output with exactly its own generation mix.
C9_ZeroTradeKeepsOwnMix ==
    mixPc = "done" =>
        \A R \in Regions :
            ( /\ HasMix(gen_mix, R)
              /\ \A P \in Regions : tm0[P][R] = Zero /\ tm0[R][P] = Zero )
            => /\ R \in OutRegions(full_gen_df)
               /\ \A fuel \in Fuels :
                     /\ OutRatio(full_gen_df, R, R, fuel) = GenRatio(gen_mix, R, fuel)
                     /\ FuelShare(full_gen_df, R, fuel) = GenRatio(gen_mix, R, fuel)

\* C10: when R's column is made of fractions summing to 1 and a partner P with
\* f(R,P) > 0 has no generation-mix rows, P contributes nothing, f(R,P) goes to
\* R's own share, and R's ratios still sum to 1.
C10_MissingPartnerRedistributed ==
    mixPc = "done" =>
        \A R, P \in Regions :
            ( /\ R # P
              /\ HasMix(gen_mix, R)
              /\ ~HasMix(gen_mix, P)
              /\ ColSum(trading_matrix, R) = One
              /\ RGt(trading_matrix[P][R], Zero) )
            => /\ FromShare(full_gen_df, R, P) = Zero
               /\ FromShare(full_gen_df, R, R)
                    = RAdd(trading_matrix[R][R], trading_matrix[P][R])
               /\ RegionTotal(full_gen_df, R) = One

----------------------------------------------------------------------------
(* olca_jsonld_writer.py: strings, identifiers, dictionaries *)

\* A Python string: s is its text stripped and in lower case, up says it
\* holds upper-case letters, pad that it has surrounding whitespace.  The
\* str() of a dictionary is a string too: wrap names the rest of the
\* dictionary's text and ipad says that the name inside it is padded.
Variant(text, up, pad) ==
    [s |-> text, up |-> up, pad |-> pad, ipad |-> FALSE, wrap |-> ""]

S(text) == Variant(text, FALSE, FALSE)

EmptyStr == S("")

\* line 2176: str(arg).strip() for each part, .lower() on the joined path
StripLower(x) ==
    [x EXCEPT !.up = FALSE, !.pad = FALSE]

\* the value under a process dictionary's 'location' key
NoLocation == [kind |-> "absent", name |-> EmptyStr, desc |-> ""]

LocStr(n) == [kind |-> "str", name |-> n, desc |-> ""]

LocDict(n, d) == [kind |-> "dict", name |-> n, desc |-> d]

\* str(value) of a location value, as _uid takes it
StrOf(loc) ==
    IF loc.kind = "dict"
    THEN [s |-> loc.name.s, up |-> loc.name.up, pad |-> FALSE,
          ipad |-> loc.name.pad, wrap |-> loc.desc]
    ELSE loc.name

\* identifiers: none, a given '@id', or a version-3 UUID of a path
NoId == [kind |-> "none", cat |-> EmptyStr, loc |-> EmptyStr, name |-> EmptyStr]

PresetId(text) ==
    [kind |-> "preset", cat |-> EmptyStr, loc |-> EmptyStr, name |-> S(text)]

\* _uid(ModelType.PROCESS, category, location_code, name): uuid3 of the
\* normalised path; the hash is taken to be injective on paths
uid(category, location_code, name) ==
    [kind |-> "uid", cat |-> StripLower(category),
     loc |-> StripLower(location_code), name |-> StripLower(name)]

\* line 1455: _val(dict_d, 'location', 'name', default='') returns the value
\* of the first key that is present: the whole 'location' value when the
\* dictionary has one, else the process name
LocationCode(d) ==
    IF d.location.kind = "absent" THEN d.name ELSE StrOf(d.location)

\* lines 1452-1464: the identifier _process gives a process dictionary
ProcUid(d) ==
    IF d.id # NoId THEN d.id
    ELSE uid(d.category, LocationCode(d), d.name)

\* _location, lines 1251-1264: the code of the Location a process refers to
\* (the empty string: no location)
location(loc) ==
    IF loc.kind = "absent" THEN EmptyStr ELSE loc.name

----------------------------------------------------------------------------
(* Flows *)

CatTech == "Technosphere Flows/22: Utilities"

CatEmission == "Elementary flows/emission/air"

CatResource == "Elementary flows/resource/ground"

CatDouble == "Elementary flows/Elementary Flows/resource/air"

CatDoubleFixed == "Elementary flows/resource/air"

CatTechResource == "Technosphere Flows/21: Mining/resource extraction"

CatLfo == "Technosphere Flows/31-33: Manufacturing/3241: Petroleum and Coal Products Manufacturing"

CatAn == "Technosphere Flows/31-33: Manufacturing/3253: Pesticide, Fertilizer, and Other Agricultural Chemical Manufacturing"

\* 'resource' in category.lower()
HasResource(cat) ==
    cat \in {CatResource, CatDouble, CatDoubleFixed, CatTechResource}

\* category.startswith("Elementary flows/Elementary Flows")
IsDoubleElementary(cat) == cat = CatDouble

\* "31-33: Manufacturing" in category
HasPriCat(cat) == cat \in {CatLfo, CatAn}

\* the flow dictionaries exchanges may name (each with a valid '@id')
FlowKeys == {"prod", "emis", "res", "heat", "heatres", "resprod", "lfo", "an"}

FlowDict(k) ==
    CASE k = "prod" -> [id |-> k, name |-> "Electricity",
                        flow_type |-> "PRODUCT_FLOW", category |-> CatTech]
      [] k = "emis" -> [id |-> k, name |-> "Carbon dioxide",
                        flow_type |-> "ELEMENTARY_FLOW", category |-> CatEmission]
      [] k = "res" -> [id |-> k, name |-> "Coal",
                       flow_type |-> "ELEMENTARY_FLOW", category |-> CatResource]
      [] k = "heat" -> [id |-> k, name |-> "Heat",
                        flow_type |-> "PRODUCT_FLOW", category |-> CatTech]
      [] k = "heatres" -> [id |-> k, name |-> "Heat",
                           flow_type |-> "ELEMENTARY_FLOW", category |-> CatDouble]
      [] k = "resprod" -> [id |-> k, name |-> "Crude oil",
                           flow_type |-> "PRODUCT_FLOW", category |-> CatTechResource]
      [] k = "lfo" -> [id |-> k, name |-> "Light fuel oil",
                       flow_type |-> "PRODUCT_FLOW", category |-> CatTech]
      [] k = "an" -> [id |-> k, name |-> "Ammonium nitrate",
                      flow_type |-> "PRODUCT_FLOW", category |-> CatTech]
      [] k = "at_grid" -> [id |-> k, name |-> "Electricity, AC, 2300-7650 V",
                           flow_type |-> "PRODUCT_FLOW", category |-> CatTech]
      [] k = "at_user" -> [id |-> k, name |-> "Electricity, AC, 120 V",
                           flow_type |-> "PRODUCT_FLOW", category |-> CatTech]

\* _heat_elem_flow: the FEDEFL 'Energy, heat' flow
heat_elem_flow ==
    [id |-> "energy_heat", name |-> "Energy, heat",
     flow_type |-> "ELEMENTARY_FLOW", category |-> CatDoubleFixed]

\* the name a flow reference (exchange.flow) carries
RefName(fid) ==
    IF fid = heat_elem_flow.id THEN heat_elem_flow.name ELSE FlowDict(fid).name

----------------------------------------------------------------------------
(* The root-entity dictionary and the archive *)

InSeq(x, seq) == \E i \in 1..Len(seq) : seq[i] = x

\* list.index(x)
IndexOf(x, seq) == CHOOSE i \in 1..Len(seq) : seq[i] = x /\ \A j \in 1..(i - 1) : seq[j] # x

\* list.remove(x): the list without the first element equal to x
Remove(seq, x) ==
    LET k == IndexOf(x, seq)
    IN [i \in 1..(Len(seq) - 1) |-> IF i < k THEN seq[i] ELSE seq[i + 1]]

EmptyStore == [ids |-> <<>>, objs |-> <<>>]

\* _root_entity_dict, for the entity kinds modelled
root_entity_dict == [Process |-> EmptyStore, Flow |-> EmptyStore]

IdsOf(objs) == [i \in 1..Len(objs) |-> objs[i].id]

\* _read_jsonld: every entity of the archive, its UUID and its object
read_jsonld(a) ==
    [Process |-> [ids |-> IdsOf(a.Process), objs |-> a.Process],
     Flow |-> [ids |-> IdsOf(a.Flow), objs |-> a.Flow]]

\* _init_root_entities: the archive's entities, or (no file) the Federal
\* Commons unit groups and flow properties, which hold no Process and no Flow
init_root_entities(a) ==
    IF a.exists THEN read_jsonld(a) ELSE root_entity_dict

\* an ordered Python dict as a sequence of [k, v]: d[k] = v
DictSet(d, k, v) ==
    IF \E i \in 1..Len(d) : d[i].k = k
    THEN LET i == CHOOSE i \in 1..Len(d) : d[i].k = k
         IN [d EXCEPT ![i] = [k |-> k, v |-> v]]
    ELSE Append(d, [k |-> k, v |-> v])

RECURSIVE PutAll(_, _, _, _)
PutAll(d, ids, objs, i) ==
    IF i > Len(ids) THEN d
    ELSE IF i > Len(objs) THEN PutAll(d, ids, objs, i + 1)
    ELSE PutAll(DictSet(d, ids[i], objs[i]), ids, objs, i + 1)

\* _make_entity_dict: the two lists as one dictionary (an id without object is skipped)
make_entity_dict(store) == PutAll(<<>>, store.ids, store.objs, 1)

StoreOf(d) ==
    [ids |-> [i \in 1..Len(d) |-> d[i].k], objs |-> [i \in 1..Len(d) |-> d[i].v]]

\* a plausible slip: the new lists are appended to the current ones
update_store_append(cur, new) ==
    [ids |-> cur.ids \o new.ids, objs |-> cur.objs \o new.objs]

\* lines 2318-2329, for one entity kind: d_cur.update(d_new), back to lists
update_store(cur, new) ==
    StoreOf(PutAll(make_entity_dict(cur), new.ids, new.objs, 1))

\* _update_data
update_data(cur_data, new_data) ==
    [Process |-> update_store(cur_data.Process, new_data.Process),
     Flow |-> update_store(cur_data.Flow, new_data.Flow)]

\* lines 1888-1896: the flows some exchange of some process refers to
TrackedFlows(data) ==
    UNION { {data.Process.objs[i].exchanges[j].flow :
                j \in 1..Len(data.Process.objs[i].exchanges)} :
            i \in 1..Len(data.Process.objs) }

KeepIndices(n, keep(_)) ==
    LET RECURSIVE From(_)
        From(i) == IF i > n THEN <<>>
                   ELSE IF keep(i) THEN <<i>> \o From(i + 1) ELSE From(i + 1)
    IN From(1)

\* a plausible slip: no flow is removed before the save
rm_untracked_flows_none(data) == data

\* _rm_untracked_flows: every flow id no exchange refers to is popped, with
\* its object, from the Flow lists (the ids are distinct here, so popping
\* each one at its index leaves the tracked positions in order)
rm_untracked_flows(data) ==
    LET tracked == TrackedFlows(data)
        keep(i) == data.Flow.ids[i] \in tracked
        idx == KeepIndices(Len(data.Flow.ids), keep)
    IN [data EXCEPT !.Flow =
            [ids |-> [k \in 1..Len(idx) |-> data.Flow.ids[idx[k]]],
             objs |-> [k \in 1..Len(idx) |-> data.Flow.objs[idx[k]]]]]

\* _save_to_json: the archive's entities updated with e_dict, untracked
\* flows removed, every object written to a new archive
save_to_json(a, e_dict) ==
    LET c_data == IF a.exists THEN read_jsonld(a) ELSE root_entity_dict
        data == rm_untracked_flows(update_data(c_data, e_dict))
    IN [exists |-> TRUE, Process |-> data.Process.objs, Flow |-> data.Flow.objs]

----------------------------------------------------------------------------
(* Building processes from dictionaries *)

\* a provider dictionary of an exchange ('provider' key), or none
NoProvider ==
    [present |-> FALSE, id |-> NoId, name |-> EmptyStr, category |-> EmptyStr,
     location |-> NoLocation]

\* _flow: the root entities with the flow of dictionary fd recorded (an
\* existing flow is reused); the flow dictionaries carry valid UUIDs
flow(fd, dict_s) ==
    IF InSeq(fd.id, dict_s.Flow.ids) THEN dict_s
    ELSE [dict_s EXCEPT !.Flow = [ids |-> Append(@.ids, fd.id),
                                  objs |-> Append(@.objs, fd)]]

\* lines 806-811: the reference _process returns for a provider dictionary:
\* the stored process of that identifier or, when there is none, a new
\* Process object of that identifier that is NOT added to dict_s (provider
\* dictionaries hold no exchanges, so building it records no flow)
ProviderRef(pd, dict_s) ==
    IF pd.present THEN ProcUid(pd) ELSE NoId

\* _exchange: the Exchange object of exchange dictionary ed
exchange(ed, dict_s) ==
    [e |-> [flow |-> FlowDict(ed.flow).id,
            amount |-> ed.amount,
            is_input |-> ed.input,
            is_quantitative_reference |-> ed.qref,
            description |-> <<>>,
            internal_id |-> 0,
            default_provider |-> ProviderRef(ed.provider, dict_s)],
     dict_s |-> flow(FlowDict(ed.flow), dict_s)]

\* _exchange_list: the exchanges numbered 1, 2, ... in list order
RECURSIVE exchange_list(_, _, _, _)
exchange_list(exs, i, r_list, dict_s) ==
    IF i > Len(exs) THEN [r_list |-> r_list, dict_s |-> dict_s]
    ELSE LET x == exchange(exs[i], dict_s)
             ex_obj == [x.e EXCEPT !.internal_id = Len(r_list) + 1]
         IN exchange_list(exs, i + 1, Append(r_list, ex_obj), x.dict_s)

\* _process: the stored process of the dictionary's identifier, or a new
\* Process built from the dictionary (last_internal_id -1: not set)
process(d, dict_s) ==
    LET id == ProcUid(d)
    IN IF InSeq(id, dict_s.Process.ids)
       THEN [p |-> dict_s.Process.objs[IndexOf(id, dict_s.Process.ids)],
             dict_s |-> dict_s]
       ELSE LET el == exchange_list(d.exchanges, 1, <<>>, dict_s)
            IN [p |-> [id |-> id, name |-> d.name, category |-> d.category,
                       location |-> location(d.location),
                       exchanges |-> el.r_list, last_internal_id |-> -1],
                dict_s |-> el.dict_s]

\* what _exchange reads from an exchange of Process.to_dict(): the schema's
\* keys are 'isInput', 'isQuantitativeReference' and 'defaultProvider', so
\* 'input', 'quantitativeReference' and 'provider' are absent
SchemaDict(e) ==
    [flow |-> e.flow, amount |-> e.amount, input |-> FALSE, qref |-> FALSE,
     provider |-> NoProvider]

\* lines 397-398: processes[p_key].update(p.to_dict()); ['uuid'] = p.id
UpdatedDict(d, p) ==
    [d EXCEPT !.id = p.id,
              !.uuid = p.id,
              !.name = p.name,
              !.category = p.category,
              !.location = IF p.location = EmptyStr THEN d.location
                           ELSE LocDict(p.location, "ref"),
              !.exchanges = [i \in 1..Len(p.exchanges) |-> SchemaDict(p.exchanges[i])]]

\* lines 386-398: every process dictionary turned into a Process, appended
\* to the Process lists, and the caller's dictionary updated
RECURSIVE write_loop(_, _, _)
write_loop(procs, i, spec_map) ==
    IF i > Len(procs) THEN [processes |-> procs, spec_map |-> spec_map]
    ELSE LET r == process(procs[i], spec_map)
             sm == [r.dict_s EXCEPT !.Process =
                        [ids |-> Append(@.ids, r.p.id),
                         objs |-> Append(@.objs, r.p)]]
         IN write_loop([procs EXCEPT ![i] = UpdatedDict(procs[i], r.p)], i + 1, sm)

\* write(processes, file_path), with to_save at its default True (the only way
\* it is called, __init__.py line 988)
write(procs, a) ==
    LET r == write_loop(procs, 1, init_root_entities(a))
    IN [processes |-> r.processes, archive |-> save_to_json(a, r.spec_map)]

----------------------------------------------------------------------------
(* clean_json *)

ReplaceAt(seq, k, x) == [seq EXCEPT ![k] = x]

\* lines 268-302: the category fixes on the exchange's flow object
FixedCategory(f_obj) ==
    LET c1 == IF IsDoubleElementary(f_obj.category) THEN CatDoubleFixed
              ELSE f_obj.category
    IN IF f_obj.name = "Light fuel oil" /\ f_obj.flow_type = "PRODUCT_FLOW"
          /\ ~HasPriCat(c1) THEN CatLfo
       ELSE IF f_obj.name = "Ammonium nitrate" /\ f_obj.flow_type = "PRODUCT_FLOW"
          /\ ~HasPriCat(c1) THEN CatAn
       ELSE c1

\* lines 215-302: the loop body for exchange e of the exchange list L (a
\* Python list that the body changes while the loop runs over it), with the
\* Flow lists F.  raised: list.index or list.remove found nothing (ValueError).
\* The tracked list e_list of the source is written and never read: left out.
clean_exchange(L, e, F) ==
    IF ~InSeq(e.flow, F.ids)
    THEN [exchanges |-> L, Flow |-> F, raised |-> TRUE]
    ELSE
    LET fid == IndexOf(e.flow, F.ids)
        f_obj == F.objs[fid]
        \* lines 221-229
        zero == e.amount = 0 /\ f_obj.flow_type # "ELEMENTARY_FLOW"
        L1 == IF zero THEN Remove(L, e) ELSE L
        \* lines 233-241
        flip == ~e.is_input /\ HasResource(f_obj.category)
        raise1 == flip /\ ~InSeq(e, L1)
        e2 == IF flip
              THEN [e EXCEPT !.is_input = TRUE,
                             !.description = <<"mislabeled resources">>]
              ELSE e
        L2 == IF flip /\ ~raise1 THEN Append(Remove(L1, e), e2) ELSE L1
        \* lines 245-266
        heat == e2.is_input /\ RefName(e2.flow) = "Heat"
        h_flow == heat_elem_flow
        F1 == IF heat /\ ~InSeq(h_flow.id, F.ids)
              THEN [ids |-> Append(F.ids, h_flow.id), objs |-> Append(F.objs, h_flow)]
              ELSE F
        raise2 == heat /\ ~InSeq(e2, L2)
        e3 == IF heat
              THEN [e2 EXCEPT !.flow = h_flow.id,
                              !.description = <<"mapped to FEDEFL">> \o e2.description]
              ELSE e2
        L3 == IF heat /\ ~raise2 THEN Append(Remove(L2, e2), e3) ELSE L2
        \* lines 270-302
        F2 == [F1 EXCEPT !.objs = ReplaceAt(@, fid,
                                    [f_obj EXCEPT !.category = FixedCategory(f_obj)])]
    IN IF raise1 THEN [exchanges |-> L1, Flow |-> F, raised |-> TRUE]
       ELSE IF raise2 THEN [exchanges |-> L2, Flow |-> F1, raised |-> TRUE]
       ELSE [exchanges |-> L3, Flow |-> F2, raised |-> FALSE]

\* line 214: "for e in p.exchanges" over the list the body mutates: the
\* iterator takes position i of the list as it then is, until i runs past its end
RECURSIVE clean_exchanges(_, _, _)
clean_exchanges(L, i, F) ==
    IF i > Len(L) THEN [exchanges |-> L, Flow |-> F, raised |-> FALSE]
    ELSE LET r == clean_exchange(L, L[i], F)
         IN IF r.raised THEN r ELSE clean_exchanges(r.exchanges, i + 1, r.Flow)

\* a plausible slip: the exchanges keep the internal ids they had
Renumbered_keep(p, L) ==
    [p EXCEPT !.exchanges = L, !.last_internal_id = Len(L)]

\* lines 306-309: internal ids renumbered in list order
Renumbered(p, L) ==
    [p EXCEPT !.exchanges = [k \in 1..Len(L) |-> [L[k] EXCEPT !.internal_id = k]],
              !.last_internal_id = Len(L)]

\* line 213: the loop over the processes
RECURSIVE clean_processes(_, _)
clean_processes(data, k) ==
    IF k > Len(data.Process.objs) THEN [data |-> data, raised |-> FALSE]
    ELSE LET p == data.Process.objs[k]
             r == clean_exchanges(p.exchanges, 1, data.Flow)
         IN IF r.raised THEN [data |-> data, raised |-> TRUE]
            ELSE clean_processes(
                    [data EXCEPT !.Flow = r.Flow,
                                 !.Process.objs = ReplaceAt(@, k, Renumbered(p, r.exchanges))],
                    k + 1)

\* clean_json on an existing archive: the archive it leaves and whether it
\* ended with an exception (the archive is then not written)
clean_json(a) ==
    LET r == clean_processes(read_jsonld(a), 1)
    IN IF r.raised THEN [archive |-> a, raised |-> TRUE]
       ELSE [archive |-> save_to_json(a, r.data), raised |-> FALSE]

----------------------------------------------------------------------------
(* The process dictionaries a caller writes *)

ProcDict(id, name, category, loc, exs) ==
    [id |-> id, uuid |-> NoId, name |-> name, category |-> category,
     location |-> loc, exchanges |-> exs]

ExchDict(fk, amount, input, qref, provider) ==
    [flow |-> fk, amount |-> amount, input |-> input, qref |-> qref,
     provider |-> provider]

ProviderDict(id, name, category, loc) ==
    [present |-> TRUE, id |-> id, name |-> name, category |-> category,
     location |-> loc]

\* exchanges of any flow, zero or not, input or output, without provider
PlainExchanges ==
    {ExchDict(fk, amt, inp, FALSE, NoProvider) :
        fk \in FlowKeys, amt \in {0, 1}, inp \in BOOLEAN}

\* one process with any exchange list of up to MaxExch exchanges
DefectInputs ==
    {<<ProcDict(NoId, S("mix a"), S("22: utilities"), NoLocation, exs)>> :
        exs \in UNION {[1..n -> PlainExchanges] : n \in 0..MaxExch}}

RefExchange == ExchDict("prod", 1, FALSE, TRUE, NoProvider)

\* a generation process and a consumption process taking its product
Supplier == ProcDict(NoId, S("generation"), S("22: utilities"), LocStr(S("us")), <<RefExchange>>)

\* provider dictionaries: naming the supplier by its fields, by its '@id', or
\* naming a process ('@id' or fields) that is nowhere written
Providers ==
    {ProviderDict(NoId, Supplier.name, Supplier.category, Supplier.location),
     ProviderDict(ProcUid(Supplier), Supplier.name, EmptyStr, NoLocation),
     ProviderDict(PresetId("2b7a"), S("elsewhere"), EmptyStr, NoLocation),
     ProviderDict(NoId, S("elsewhere"), S("22: utilities"), NoLocation)}

Consumer(pv, amt) ==
    ProcDict(NoId, S("consumption"), S("22: utilities"), LocStr(S("us")),
             <<RefExchange, ExchDict("prod", amt, TRUE, FALSE, pv)>>)

LinkInputs ==
    UNION { {<<Consumer(pv, amt)>>, <<Consumer(pv, amt), Supplier>>,
             <<Supplier, Consumer(pv, amt)>>} :
            pv \in Providers \cup {NoProvider}, amt \in {0, 1} }

\* process dictionaries without '@id' whose names, categories and locations
\* differ in case, padding and the other fields of the location
NameVariants == {S("mix"), Variant("mix", TRUE, TRUE)}

CategoryVariants == {S("22: utilities"), Variant("22: utilities", TRUE, FALSE)}

LocationVariants ==
    {NoLocation, LocStr(S("us")), LocStr(Variant("us", TRUE, TRUE)),
     LocDict(S("us"), "description a"), LocDict(S("us"), "description b"),
     LocDict(Variant("us", TRUE, TRUE), "description a")}

VariantDicts ==
    {ProcDict(NoId, n, c, l, <<RefExchange>>) :
        n \in NameVariants, c \in CategoryVariants, l \in LocationVariants}

IdentityInputs == {<<d1, d2>> : d1 \in VariantDicts, d2 \in VariantDicts}

GraphInputs == DefectInputs \cup LinkInputs \cup IdentityInputs

----------------------------------------------------------------------------
(* Product systems *)

\* ZipReader.read(o.Process, pid): the process of the archive, or None
NoProcess == [id |-> NoId]

ZipRead(a, pid) ==
    IF \E k \in 1..Len(a.Process) : a.Process[k].id = pid
    THEN a.Process[CHOOSE k \in 1..Len(a.Process) : a.Process[k].id = pid]
    ELSE NoProcess

\* a slip: the supply chain stops at the process itself
build_supply_chain_rootOnly(a, pid, e_list, p_list) ==
    IF ZipRead(a, pid) # NoProcess /\ ~InSeq(pid, p_list)
    THEN [e_list |-> e_list, p_list |-> Append(p_list, pid)]
    ELSE [e_list |-> e_list, p_list |-> p_list]

RECURSIVE build_supply_chain(_, _, _, _)
RECURSIVE SupplyLoop(_, _, _, _, _)

\* lines 565-581: the input exchanges with default provider, in list order;
\* each gives a process link and then the supply chain of its provider
SupplyLoop(a, p_obj, i, e_list, p_list) ==
    IF i > Len(p_obj.exchanges) THEN [e_list |-> e_list, p_list |-> p_list]
    ELSE LET ex == p_obj.exchanges[i]
         IN IF ex.is_input /\ ex.default_provider # NoId
            THEN LET p_link == [exchange |-> ex.internal_id, flow |-> ex.flow,
                                process |-> p_obj.id, provider |-> ex.default_provider]
                     r == build_supply_chain(a, ex.default_provider,
                                             Append(e_list, p_link), p_list)
                 IN SupplyLoop(a, p_obj, i + 1, r.e_list, r.p_list)
            ELSE SupplyLoop(a, p_obj, i + 1, e_list, p_list)

\* _build_supply_chain(zh, pid, e_list, p_list)
build_supply_chain(a, pid, e_list, p_list) ==
    IF ZipRead(a, pid) # NoProcess /\ ~InSeq(pid, p_list)
    THEN SupplyLoop(a, ZipRead(a, pid), 1, e_list, Append(p_list, pid))
    ELSE [e_list |-> e_list, p_list |-> p_list]

\* _make_process_ref
make_process_ref(p_obj) == [id |-> p_obj.id, category |-> p_obj.category]

\* _make_product_system(f_path, process)
make_product_system(a, process_) ==
    LET r == build_supply_chain(a, process_.id, <<>>, <<>>)
    IN [name |-> process_.name,
        ref_process |-> process_.id,
        processes |-> [k \in 1..Len(r.p_list) |-> make_process_ref(ZipRead(a, r.p_list[k]))],
        process_links |-> r.e_list]

\* the regions of the 'at user' names that the three patterns of lines
\* 123-125 match: ' - (.*) - BA', ' - (.*) - FERC' and ' - US - US'
AtUserNames ==
    {"Electricity; at user; consumption mix - " \o reg \o " - " \o subreg :
        reg \in {"A", "B", "US"}, subreg \in {"BA", "FERC"}}
    \cup {"Electricity; at user; consumption mix - US - US"}

\* re.match of one of the patterns on the name as stored: anchored at both
\* ends and case sensitive
MatchesAtUser(name) == name.s \in AtUserNames /\ ~name.up /\ ~name.pad

\* _match_process_names for the three patterns together (one scope is used
\* at a time here, so the order r1 + r2 + r3 is the list order)
match_process_names(objs) ==
    LET idx == {k \in 1..Len(objs) : MatchesAtUser(objs[k].name)}
        RECURSIVE From(_)
        From(k) == IF k > Len(objs) THEN <<>>
                   ELSE IF k \in idx THEN <<objs[k].id>> \o From(k + 1)
                   ELSE From(k + 1)
    IN From(1)

\* lines 144-152: one product system for each matching process
build_product_systems(a) ==
    LET r == match_process_names(a.Process)
    IN [k \in 1..Len(r) |-> make_product_system(a, ZipRead(a, r[k]))]

----------------------------------------------------------------------------
(* The writer as a state machine *)

GraphInit ==
    /\ processes \in GraphInputs
    /\ processes0 = processes
    /\ archive = NoArchive
    /\ lastOp = "none"
    /\ writes = 0
    /\ product_systems = <<>>
    /\ MixIdle
    /\ TradeIdle
    /\ AuxIdle

\* write(processes, file_path)
Write ==
    /\ writes < MaxWrites
    /\ LET r == write(processes, archive)
       IN /\ processes' = r.processes
          /\ archive' = r.archive
    /\ lastOp' = "write"
    /\ writes' = writes + 1
    /\ UNCHANGED <<processes0, product_systems>>
    /\ UNCHANGED mixVars
    /\ UNCHANGED tradeVars
    /\ UNCHANGED auxVars

\* clean_json(file_path) ending normally
CleanJson ==
    /\ archive.exists
    /\ ~clean_json(archive).raised
    /\ archive' = clean_json(archive).archive
    /\ lastOp' = "clean"
    /\ UNCHANGED <<processes, processes0, writes, product_systems>>
    /\ UNCHANGED mixVars
    /\ UNCHANGED tradeVars
    /\ UNCHANGED auxVars

\* clean_json(file_path) ending with a ValueError: nothing is saved
CleanJsonRaises ==
    /\ archive.exists
    /\ clean_json(archive).raised
    /\ lastOp' = "clean_raised"
    /\ UNCHANGED <<processes, processes0, archive, writes, product_systems>>
    /\ UNCHANGED mixVars
    /\ UNCHANGED tradeVars
    /\ UNCHANGED auxVars

\* clean_json(file_path) without archive: OSError caught, a warning, nothing done
CleanJsonNoFile ==
    /\ ~archive.exists
    /\ lastOp' = "clean_nofile"
    /\ UNCHANGED <<processes, processes0, archive, writes, product_systems>>
    /\ UNCHANGED mixVars
    /\ UNCHANGED tradeVars
    /\ UNCHANGED auxVars

\* build_product_systems(file_path, elci_config): the archive is read, a
\* product system is made for every 'at user' consumption mix, and everything
\* is saved again (the ProductSystem store of the archive is not among the
\* entity kinds modelled: the systems made are kept in product_systems)
BuildProductSystems ==
    /\ archive.exists
    /\ archive' = save_to_json(archive, read_jsonld(archive))
    /\ product_systems' = build_product_systems(archive)
    /\ lastOp' = "build"
    /\ UNCHANGED <<processes, processes0, writes>>
    /\ UNCHANGED mixVars
    /\ UNCHANGED tradeVars
    /\ UNCHANGED auxVars

\* build_product_systems without archive: the OSError is caught and logged,
\* and line 126 then reads the unbound name 'data' (NameError): nothing saved
BuildProductSystemsNoFile ==
    /\ ~archive.exists
    /\ lastOp' = "build_raised"
    /\ UNCHANGED <<processes, processes0, archive, writes, product_systems>>
    /\ UNCHANGED mixVars
    /\ UNCHANGED tradeVars
    /\ UNCHANGED auxVars

GraphNext ==
    \/ Write
    \/ CleanJson
    \/ CleanJsonRaises
    \/ CleanJsonNoFile
    \/ BuildProductSystems
    \/ BuildProductSystemsNoFile

SpecGraph == GraphInit /\ [][GraphNext]_vars

----------------------------------------------------------------------------
(* run_net_trade: consumption mixes and distribution processes *)

\* the keys of run_net_trade's dictionaries, in the order they are looped over
Scopes == <<"BA", "FERC", "US">>

ScopeSet == {Scopes[i] : i \in 1..Len(Scopes)}

\* line 338: the name a region's consumption-mix process has to carry
ConsMixName(reg, subregion) ==
    "Electricity; at grid; consumption mix - " \o reg \o " - " \o subregion

\* line 356: the name given to a region's distribution process
DistMixName(reg, subregion) ==
    "Electricity; at user; consumption mix - " \o reg \o " - " \o subregion

CatUtilities == S("22: Utilities/2211: Electric Power Generation, Transmission and Distribution")

\* process_dictionary_writer.ref_exchange_creator: a reference output of 1 MWh
\* of the flow, no provider
ref_exchange_creator(electricity_flow) ==
    ExchDict(electricity_flow, One, FALSE, TRUE, NoProvider)

\* process_dictionary_writer.process_table_creation_distribution: the
\* process dictionary of the region with these exchanges
process_table_creation_distribution(reg, exchanges_list) ==
    ProcDict(NoId, S("Electricity; at user; consumption mix - " \o reg),
             CatUtilities, LocStr(S(reg)), exchanges_list)

\* a consumption-mix process dictionary as olca_schema_consumption_mix
\* leaves it: no 'uuid' before it is written
ConsMixDict(name) ==
    ProcDict(NoId, S(name), CatUtilities, NoLocation,
             <<ref_exchange_creator("at_grid")>>)

\* lines 291-302: the region names looked up, from the keys 'reg - BA' /
\* 'reg - FERC' of cons_mix_dict[subregion] (a dictionary is held as a
\* sequence of [k, v], k the key without its ' - scope' ending)
RegionList(cons_mix_dict, subregion) ==
    IF subregion \in {"BA", "FERC"}
    THEN [j \in 1..Len(cons_mix_dict[subregion]) |-> cons_mix_dict[subregion][j].k]
    ELSE <<"US">>

\* lines 293-300: any other subregion is taken as "US"
ScopeOf(subregion) ==
    IF subregion \in {"BA", "FERC"} THEN subregion ELSE "US"

\* lines 306-308: the rows of the scope's loss table for the region (the
\* whole table for "US")
LossRows(td, subregion, reg) ==
    IF subregion = "US" THEN td[subregion]
    ELSE SelectSeq(td[subregion], LAMBDA row : row.region = reg)

\* lines 310-320: the loss rate used: the US average when the region has no
\* row, else the first row's
TdVal(td, subregion, reg) ==
    LET database_reg == LossRows(td, subregion, reg)
    IN IF Len(database_reg) = 0 THEN td["US"][1].t_d_losses
       ELSE database_reg[1].t_d_losses

\* a plausible slip: the loss rate itself is taken as the amount
DistExchanges_noUnit(td_val) ==
    <<ref_exchange_creator("at_user"),
      [ref_exchange_creator("at_grid") EXCEPT !.input = TRUE, !.qref = FALSE,
                                              !.amount = td_val]>>

\* a plausible slip: the input keeps the reference flag it was created with
DistExchanges_keepRef(td_val) ==
    <<ref_exchange_creator("at_user"),
      [ref_exchange_creator("at_grid") EXCEPT !.input = TRUE,
                                              !.amount = RAdd(One, td_val)]>>

\* lines 322-333: the two exchanges of a distribution process
DistExchanges(td_val) ==
    <<ref_exchange_creator("at_user"),
      [ref_exchange_creator("at_grid") EXCEPT !.input = TRUE, !.qref = FALSE,
                                              !.amount = RAdd(One, td_val)]>>

\* lines 335-342: the first process dictionary of the scope carrying the
\* region's consumption-mix name (0: none)
MatchingIndex(cons_mix_dict, subregion, reg) ==
    LET cm == cons_mix_dict[subregion]
        hits == {j \in 1..Len(cm) : cm[j].v.name = S(ConsMixName(reg, subregion))}
    IN IF hits = {} THEN 0 ELSE CHOOSE j \in hits : \A h \in hits : j <= h

\* lines 350-357: the distribution process of the region, its input
\* provided by the matching consumption mix
DistProcess(reg, subregion, exchanges_list, matching_dict) ==
    LET provider == ProviderDict(matching_dict.uuid, matching_dict.name,
                                 matching_dict.category, NoLocation)
        exs == [exchanges_list EXCEPT ![2].provider = provider]
    IN [process_table_creation_distribution(reg, exs)
            EXCEPT !.name = S(DistMixName(reg, subregion))]

\* a plausible slip: a region without matching consumption mix gets its
\* process all the same, the provider left unset
AddRegion_always(acc, td, cons_mix_dict, subregion, reg) ==
    LET exchanges_list == DistExchanges(TdVal(td, subregion, reg))
        m == MatchingIndex(cons_mix_dict, subregion, reg)
    IN IF m = 0
       THEN [dict |-> DictSet(acc.dict, reg,
                        [process_table_creation_distribution(reg, exchanges_list)
                            EXCEPT !.name = S(DistMixName(reg, subregion))]),
             raised |-> FALSE]
       ELSE IF cons_mix_dict[subregion][m].v.uuid = NoId
       THEN [dict |-> acc.dict, raised |-> TRUE]
       ELSE [dict |-> DictSet(acc.dict, reg,
                        DistProcess(reg, subregion, exchanges_list,
                                    cons_mix_dict[subregion][m].v)),
             raised |-> FALSE]

\* lines 304-357, one pass of the loop over the regions: without matching
\* dictionary a warning and nothing else; a matching dictionary without
\* 'uuid' (never written) is a KeyError at line 352
AddRegion(acc, td, cons_mix_dict, subregion, reg) ==
    LET exchanges_list == DistExchanges(TdVal(td, subregion, reg))
        m == MatchingIndex(cons_mix_dict, subregion, reg)
    IN IF m = 0 THEN acc
       ELSE IF cons_mix_dict[subregion][m].v.uuid = NoId
       THEN [dict |-> acc.dict, raised |-> TRUE]
       ELSE [dict |-> DictSet(acc.dict, reg,
                        DistProcess(reg, subregion, exchanges_list,
                                    cons_mix_dict[subregion][m].v)),
             raised |-> FALSE]

RECURSIVE DistLoop(_, _, _, _, _, _)
DistLoop(acc, td, cons_mix_dict, subregion, region, j) ==
    IF j > Len(region) \/ acc.raised THEN acc
    ELSE DistLoop(AddRegion(acc, td, cons_mix_dict, subregion, region[j]),
                  td, cons_mix_dict, subregion, region, j + 1)

\* olca_schema_distribution_mix(td_by_region, cons_mix_dict, subregion)
olca_schema_distribution_mix(td, cons_mix_dict, subregion) ==
    DistLoop([dict |-> <<>>, raised |-> FALSE], td, cons_mix_dict,
             ScopeOf(subregion), RegionList(cons_mix_dict, subregion), 1)

\* write_process_dicts_to_jsonld(d): the dictionary's process dictionaries
\* written, and the dictionary with the dictionaries write has updated
write_process_dicts_to_jsonld(d, a) ==
    LET r == write([j \in 1..Len(d) |-> d[j].v], a)
    IN [dict |-> [j \in 1..Len(d) |-> [k |-> d[j].k, v |-> r.processes[j]]],
        archive |-> r.archive]

\* a plausible slip: each scope's distribution processes are built right
\* after that scope's consumption mixes are written
NetTradeSteps_interleaved ==
    <<[op |-> "write_cons", subreg |-> "BA"], [op |-> "dist", subreg |-> "BA"],
      [op |-> "write_cons", subreg |-> "FERC"], [op |-> "dist", subreg |-> "FERC"],
      [op |-> "write_cons", subreg |-> "US"], [op |-> "dist", subreg |-> "US"],
      [op |-> "write_dist", subreg |-> "BA"], [op |-> "write_dist", subreg |-> "FERC"],
      [op |-> "write_dist", subreg |-> "US"]>>

\* run_net_trade, lines 734-759: its loops over the scopes, one after the
\* other (the loss tables of lines 740-743 are inputs here)
NetTradeSteps ==
    <<[op |-> "write_cons", subreg |-> "BA"], [op |-> "write_cons", subreg |-> "FERC"],
      [op |-> "write_cons", subreg |-> "US"],
      [op |-> "dist", subreg |-> "BA"], [op |-> "dist", subreg |-> "FERC"],
      [op |-> "dist", subreg |-> "US"],
      [op |-> "write_dist", subreg |-> "BA"], [op |-> "write_dist", subreg |-> "FERC"],
      [op |-> "write_dist", subreg |-> "US"]>>

\* the position after step i
AfterStep(i) ==
    IF i = Len(NetTradeSteps) THEN [phase |-> "done", i |-> i + 1]
    ELSE [phase |-> "run", i |-> i + 1]

\* the steps run_net_trade has completed
StepsDone == {NetTradeSteps[j] : j \in 1..(netPc.i - 1)}

LossSet == {Frac(k, 20) : k \in 1..MaxLoss}

\* what olca_schema_consumption_mix may hold for a region: nothing, a
\* process of the expected name, or one named after another spelling
ConsOptions(reg, subregion) ==
    {<<>>,
     <<[k |-> reg, v |-> ConsMixDict(ConsMixName(reg, subregion))]>>,
     <<[k |-> reg, v |-> ConsMixDict(ConsMixName(reg \o " Power", subregion))]>>}

\* the rows a loss table may hold for a region
LossOptions(reg) ==
    {<<>>} \cup {<<[region |-> reg, t_d_losses |-> l]>> : l \in LossSet}

\* generate_regional_grid_loss groups by region, one row each; two rows for
\* a region are what lines 315-320 provide for
TwoRows(reg) ==
    <<[region |-> reg, t_d_losses |-> Frac(1, 20)],
      [region |-> reg, t_d_losses |-> Frac(2, 20)]>>

TradeInit ==
    /\ \E a \in ConsOptions("A", "BA"), b \in ConsOptions("B", "BA"),
          f \in ConsOptions("F", "FERC"), u \in ConsOptions("US", "US") :
          cons_mix_dicts = [subreg \in ScopeSet |->
                               CASE subreg = "BA" -> a \o b
                                 [] subreg = "FERC" -> f
                                 [] OTHER -> u]
    /\ \E a \in LossOptions("A") \cup {TwoRows("A")}, b \in LossOptions("B"),
          f \in LossOptions("F"), l \in LossSet :
          td_by_region = [subreg \in ScopeSet |->
                             CASE subreg = "BA" -> a \o b
                               [] subreg = "FERC" -> f
                               [] OTHER -> <<[region |-> "US", t_d_losses |-> l]>>]
    /\ dist_mix_dicts = [subreg \in ScopeSet |-> <<>>]
    /\ netPc = [phase |-> "run", i |-> 1]
    /\ GraphIdle
    /\ MixIdle
    /\ AuxIdle

\* lines 734-738, one scope: cons_mix_dicts[subreg] written to the archive
WriteConsMix ==
    /\ netPc.phase = "run"
    /\ NetTradeSteps[netPc.i].op = "write_cons"
    /\ LET subreg == NetTradeSteps[netPc.i].subreg
           r == write_process_dicts_to_jsonld(cons_mix_dicts[subreg], archive)
       IN /\ cons_mix_dicts' = [cons_mix_dicts EXCEPT ![subreg] = r.dict]
          /\ archive' = r.archive
    /\ netPc' = AfterStep(netPc.i)
    /\ UNCHANGED <<dist_mix_dicts, td_by_region>>
    /\ UNCHANGED <<processes, processes0, lastOp, writes, product_systems>>
    /\ UNCHANGED mixVars
    /\ UNCHANGED auxVars

\* lines 747-753, one scope: the distribution process dictionaries built,
\* or olca_schema_distribution_mix ending with its KeyError (run_net_trade
\* catches nothing and ends with it)
BuildDistMix ==
    /\ netPc.phase = "run"
    /\ NetTradeSteps[netPc.i].op = "dist"
    /\ LET subreg == NetTradeSteps[netPc.i].subreg
           r == olca_schema_distribution_mix(td_by_region, cons_mix_dicts, subreg)
       IN IF r.raised
          THEN /\ netPc' = [phase |-> "raised", i |-> netPc.i]
               /\ UNCHANGED dist_mix_dicts
          ELSE /\ netPc' = AfterStep(netPc.i)
               /\ dist_mix_dicts' = [dist_mix_dicts EXCEPT ![subreg] = r.dict]
    /\ UNCHANGED <<cons_mix_dicts, td_by_region>>
    /\ UNCHANGED graphVars
    /\ UNCHANGED mixVars
    /\ UNCHANGED auxVars

\* lines 755-759, one scope: dist_mix_dicts[subreg] written to the archive
WriteDistMix ==
    /\ netPc.phase = "run"
    /\ NetTradeSteps[netPc.i].op = "write_dist"
    /\ LET subreg == NetTradeSteps[netPc.i].subreg
           r == write_process_dicts_to_jsonld(dist_mix_dicts[subreg], archive)
       IN /\ dist_mix_dicts' = [dist_mix_dicts EXCEPT ![subreg] = r.dict]
          /\ archive' = r.archive
    /\ netPc' = AfterStep(netPc.i)
    /\ UNCHANGED <<cons_mix_dicts, td_by_region>>
    /\ UNCHANGED <<processes, processes0, lastOp, writes, product_systems>>
    /\ UNCHANGED mixVars
    /\ UNCHANGED auxVars

TradeNext ==
    \/ WriteConsMix
    \/ BuildDistMix
    \/ WriteDistMix

SpecTrade == TradeInit /\ [][TradeNext]_vars

----------------------------------------------------------------------------
(* Properties of the writer *)

\* C3: clean_json is idempotent: once it has run on an archive, running it
\* again ends normally and leaves the archive as it is (same exchanges per
\* process, same is_input flags, descriptions, internal ids and flows).
C3_CleanJsonIdempotent ==
    lastOp = "clean" =>
        /\ ~clean_json(archive).raised
        /\ clean_json(archive).archive = archive

ProcessIds(a) == {a.Process[i].id : i \in 1..Len(a.Process)}

\* C4: after write followed by clean_json, every exchange with a default
\* provider names a process that is in the archive's Process store.
C4_NoDanglingProvider ==
    lastOp = "clean" =>
        \A i \in 1..Len(archive.Process) :
            \A j \in 1..Len(archive.Process[i].exchanges) :
                LET e == archive.Process[i].exchanges[j]
                IN e.default_provider # NoId => e.default_provider \in ProcessIds(archive)

\* the (category, location name, name) of a process dictionary, each compared
\* without case and surrounding whitespace
IdentityKey(d) ==
    <<StripLower(d.category), StripLower(d.location.name), StripLower(d.name)>>

\* C5: the identifier write gives a process dictionary without '@id' depends
\* only on its (category, location name, name), compared case-insensitively
\* and without surrounding whitespace: two dictionaries agreeing on these
\* get the same identifier.
C5_UidDependsOnlyOnKey ==
    writes >= 1 =>
        \A i, j \in 1..Len(processes0) :
            ( /\ processes0[i].id = NoId
              /\ processes0[j].id = NoId
              /\ IdentityKey(processes0[i]) = IdentityKey(processes0[j]) )
            => processes[i].uuid = processes[j].uuid

NoDuplicates(seq) == \A i, j \in 1..Len(seq) : seq[i] = seq[j] => i = j

\* C6: however often the same process dictionaries are written to the
\* archive, the archive holds exactly one Process per identifier, and its
\* identifiers are those of the dictionaries, as after the first write.
C6_RepeatedWriteNoDuplicates ==
    writes >= 1 =>
        /\ NoDuplicates(IdsOf(archive.Process))
        /\ ProcessIds(archive) = {ProcUid(processes0[i]) : i \in 1..Len(processes0)}

\* two dictionaries of one identifier have been written twice
C6_Witness ==
    /\ writes >= 2
    /\ Len(processes0) = 2
    /\ ProcUid(processes0[1]) = ProcUid(processes0[2])
    /\ Len(archive.Process) = 1

\* the Flow object of identifier fid in archive a
FlowOf(a, fid) == a.Flow[IndexOf(fid, IdsOf(a.Flow))]

FlowIds(a) == {a.Flow[i].id : i \in 1..Len(a.Flow)}

\* the exchanges of the archive's processes
ArchiveExchanges(a) ==
    UNION { {a.Process[i].exchanges[j] : j \in 1..Len(a.Process[i].exchanges)} :
            i \in 1..Len(a.Process) }

\* the exchange dictionaries the caller first supplied
SuppliedExchanges ==
    UNION { {processes0[i].exchanges[j] : j \in 1..Len(processes0[i].exchanges)} :
            i \in 1..Len(processes0) }

\* C11: after clean_json no process holds an exchange of amount 0 whose
\* flow is not an elementary flow, however many such exchanges there were
\* and wherever they stood in the list.
C11_NoZeroProductExchange ==
    lastOp = "clean" =>
        \A e \in ArchiveExchanges(archive) :
            ~(e.amount = 0 /\ FlowOf(archive, e.flow).flow_type # "ELEMENTARY_FLOW")

\* C12: after clean_json no output exchange refers to a flow whose category
\* contains 'resource' (each has become an input marked 'mislabeled
\* resources'), and every process is still in the archive.
C12_NoResourceOutput ==
    lastOp = "clean" =>
        /\ \A e \in ArchiveExchanges(archive) :
               ~(~e.is_input /\ HasResource(FlowOf(archive, e.flow).category))
        /\ \A i \in 1..Len(processes0) : ProcUid(processes0[i]) \in ProcessIds(archive)

\* C13: after every save the flows in the archive's Flow store are exactly
\* the flows some exchange of some stored process refers to: none is kept
\* without a reference and none that is referred to is missing.
C13_FlowsAreTheReferencedOnes ==
    archive.exists => FlowIds(archive) = TrackedFlows(read_jsonld(archive))

\* clean_json has saved an archive whose 'Heat' product flow lost its only
\* reference to the FEDEFL flow and is gone from the store
C13_Witness ==
    /\ lastOp = "clean"
    /\ \E d \in SuppliedExchanges : d.flow = "heat"
    /\ "heat" \notin FlowIds(archive)
    /\ heat_elem_flow.id \in FlowIds(archive)

\* C14: after clean_json the internal ids of every process's exchanges are
\* 1, 2, ..., n in list order and its last_internal_id is n.
C14_InternalIdsConsecutive ==
    lastOp = "clean" =>
        \A i \in 1..Len(archive.Process) :
            LET p == archive.Process[i]
            IN /\ \A j \in 1..Len(p.exchanges) : p.exchanges[j].internal_id = j
               /\ p.last_internal_id = Len(p.exchanges)

\* clean_json has removed an exchange from a process and left another
C14_Witness ==
    /\ lastOp = "clean"
    /\ Len(processes0) = 1
    /\ Len(archive.Process) = 1
    /\ Len(archive.Process[1].exchanges) >= 1
    /\ Len(archive.Process[1].exchanges) < Len(processes0[1].exchanges)

\* C15: clean_json never ends with an exception on an archive it can read,
\* whatever defects an exchange combines.
C15_CleanJsonNeverRaises ==
    lastOp # "clean_raised"

\* C20: trading_mix_fuels leaves its arguments as they were: after the call
\* (the only normalisation being its own) the caller's trading_matrix and
\* gen_mix hold the values supplied.
C20_InputsReadOnly ==
    (mixPc = "done" /\ normCalls = 1) => trading_matrix = tm0

----------------------------------------------------------------------------
(* Properties of run_net_trade and the distribution processes *)

DistBuilt(subreg) == [op |-> "dist", subreg |-> subreg] \in StepsDone

DistWritten(subreg) == [op |-> "write_dist", subreg |-> subreg] \in StepsDone

KeysOf(d) == {d[j].k : j \in 1..Len(d)}

ValuesOf(d) == {d[j].v : j \in 1..Len(d)}

\* the region's key has a consumption-mix process of the expected name
HasNamedConsMix(subreg, reg) ==
    \E c \in ValuesOf(cons_mix_dicts[subreg]) : c.name = S(ConsMixName(reg, subreg))

RegionRows(subreg, reg) ==
    {td_by_region[subreg][j] : j \in
        {j \in 1..Len(td_by_region[subreg]) : td_by_region[subreg][j].region = reg}}

\* C17: the 'at grid' input of every distribution process has amount 1 + L,
\* L the loss rate of the region's row in the scope's loss table (the first
\* one, should there be several) or, without row, the US average.
C17_InputIsOnePlusLoss ==
    \A subreg \in ScopeSet :
        DistBuilt(subreg) =>
            \A j \in 1..Len(dist_mix_dicts[subreg]) :
                LET reg == dist_mix_dicts[subreg][j].k
                    amount == dist_mix_dicts[subreg][j].v.exchanges[2].amount
                    rows == RegionRows(subreg, reg)
                    first == SelectSeq(td_by_region[subreg], LAMBDA row : row \in rows)
                IN IF rows = {}
                   THEN amount = RAdd(One, td_by_region["US"][1].t_d_losses)
                   ELSE amount = RAdd(One, first[1].t_d_losses)

\* a distribution process was built for a region the loss table does not hold
C17_Witness ==
    /\ DistBuilt("BA")
    /\ \E reg \in KeysOf(dist_mix_dicts["BA"]) : RegionRows("BA", reg) = {}

\* every consumption-mix process dictionary carries the uuid of a stored process
AllConsMixWritten ==
    \A subreg \in ScopeSet :
        \A c \in ValuesOf(cons_mix_dicts[subreg]) :
            c.uuid # NoId /\ c.uuid \in ProcessIds(archive)

ConsMixUuids ==
    UNION { {c.uuid : c \in ValuesOf(cons_mix_dicts[subreg])} : subreg \in ScopeSet }

\* the process of identifier id in archive a
ProcessOf(a, id) == a.Process[IndexOf(id, IdsOf(a.Process))]

\* C18: a scope's distribution processes are built only when every
\* consumption-mix process of every scope has been written (has its uuid
\* and is in the archive), nothing is raised, and every distribution
\* process's provider is the uuid of such a consumption-mix process.
C18_DistAfterAllConsMixWritten ==
    /\ netPc.phase # "raised"
    /\ \A subreg \in ScopeSet :
          DistBuilt(subreg) =>
              /\ AllConsMixWritten
              /\ \A d \in ValuesOf(dist_mix_dicts[subreg]) :
                     IF DistWritten(subreg)
                     THEN /\ d.uuid \in ProcessIds(archive)
                          /\ ProcessOf(archive, d.uuid).exchanges[2].default_provider
                                 \in ConsMixUuids \cap ProcessIds(archive)
                     ELSE d.exchanges[2].provider.id
                                 \in ConsMixUuids \cap ProcessIds(archive)

\* distribution processes of two scopes were built, with providers
C18_Witness ==
    /\ netPc.phase = "done"
    /\ dist_mix_dicts["BA"] # <<>>
    /\ dist_mix_dicts["FERC"] # <<>>
    /\ dist_mix_dicts["US"] # <<>>

\* C19: a distribution process has exactly one exchange flagged as
\* quantitative reference, the 'electricity at user' output; its
\* 'electricity at grid' exchange is an input and not flagged (in the
\* dictionary built, and in the process stored from it).
C19_OneReferenceExchange ==
    \A subreg \in ScopeSet :
        DistBuilt(subreg) =>
            \A d \in ValuesOf(dist_mix_dicts[subreg]) :
                IF DistWritten(subreg)
                THEN LET ex == ProcessOf(archive, d.uuid).exchanges
                     IN /\ {j \in 1..Len(ex) : ex[j].is_quantitative_reference} = {1}
                        /\ ex[1].flow = "at_user" /\ ~ex[1].is_input
                        /\ ex[2].flow = "at_grid" /\ ex[2].is_input
                ELSE /\ {j \in 1..Len(d.exchanges) : d.exchanges[j].qref} = {1}
                     /\ d.exchanges[1].flow = "at_user" /\ ~d.exchanges[1].input
                     /\ d.exchanges[2].flow = "at_grid" /\ d.exchanges[2].input

\* a distribution process of the FERC scope was built and stored
C19_Witness ==
    /\ DistWritten("FERC")
    /\ dist_mix_dicts["FERC"] # <<>>
    /\ \A d \in ValuesOf(dist_mix_dicts["FERC"]) : d.uuid \in ProcessIds(archive)

----------------------------------------------------------------------------
(* consumption_mix_dictionary: the surplus-pool consumption mixes *)

\* the value of an empty spreadsheet cell
None == <<>>

\* process_dictionary_writer.exchange_table_creation_input_con_mix: an input
\* of electricity of the amount, from the location
exchange_table_creation_input_con_mix(generation, loc) ==
    [flow |-> "at_grid", amount |-> generation, input |-> TRUE, qref |-> FALSE,
     provider |-> NoProvider, location |-> loc]

\* a plausible slip: a cell holding 0 counts as trade data
HasTradeCell_zero(trade_matrix, nerc) ==
    \E j \in 1..Len(trade_matrix[1]) : trade_matrix[nerc + 1][j] # None

\* lines 104-108: the row of the trade matrix has a cell that is neither
\* empty nor zero (row 1 of the sheet holds the column names)
HasTradeCell(trade_matrix, nerc) ==
    \E j \in 1..Len(trade_matrix[1]) :
        trade_matrix[nerc + 1][j] # None /\ trade_matrix[nerc + 1][j] # Zero

\* lines 101-115: the loop over the NERC rows; the surplus-pool input is
\* added for each row named as the region's NERC region, when the trade-in is
\* not 0 and the row has a trade cell
RECURSIVE SurplusLoop(_, _, _, _, _)
SurplusLoop(a, reg, nerc, exchanges_list, chk) ==
    IF nerc > Len(a.nerc_region2) THEN [exchanges_list |-> exchanges_list, chk |-> chk]
    ELSE IF /\ a.nerc_region[reg] = a.nerc_region2[nerc]
            /\ a.surplus_pool_trade_in[reg] # Zero
            /\ HasTradeCell(a.trade_matrix, nerc)
         THEN SurplusLoop(a, reg, nerc + 1,
                          Append(exchanges_list,
                                 exchange_table_creation_input_con_mix(
                                     a.surplus_pool_trade_in[reg], a.nerc_region[reg])),
                          1)
         ELSE SurplusLoop(a, reg, nerc + 1, exchanges_list, chk)

\* lines 95-124: the exchanges of the region's consumption process
ConMixExchanges(a, reg) ==
    LET region == a.egrid_regions[reg]
        r == SurplusLoop(a, reg, 1, <<[ref_exchange_creator("at_grid")
                                          EXCEPT !.provider = NoProvider]>>, 0)
    IN IF r.chk = 1
       THEN Append(r.exchanges_list,
                   exchange_table_creation_input_con_mix(a.generation_quantity[reg], region))
       ELSE Append(r.exchanges_list,
                   exchange_table_creation_input_con_mix(One, region))

\* process_dictionary_writer.process_table_creation_con_mix: the process
\* dictionary of the region with these exchanges
process_table_creation_con_mix(region, exchanges_list) ==
    [name |-> "Electricity; at grid; consumption mix - " \o region,
     location |-> region, exchanges |-> exchanges_list]

RECURSIVE ConMixLoop(_, _, _)
ConMixLoop(a, reg, acc) ==
    IF reg > Len(a.egrid_regions) THEN acc
    ELSE ConMixLoop(a, reg + 1,
            DictSet(acc, "Consumption" \o a.egrid_regions[reg],
                    process_table_creation_con_mix(a.egrid_regions[reg],
                                                   ConMixExchanges(a, reg))))

\* consumption_mix_dictionary(nerc_region, surplus_pool_trade_in,
\* trade_matrix, generation_quantity, egrid_regions, nerc_region2)
consumption_mix_dictionary(a) == ConMixLoop(a, 1, <<>>)

\* the spreadsheet: one or two eGRID regions, each in a NERC region (one of
\* them without row in the matrix), and a matrix of two NERC rows
EgridNames == <<"AKGD", "CAMX">>

NercNames2 == <<"ASCC", "WECC">>

NercChoice == {"ASCC", "WECC", "HICC"}

Cells == {None, Zero, Frac(1, 2)}

ConInit ==
    /\ \E n \in 1..2 :
       \E nr \in [1..n -> NercChoice],
          sp \in [1..n -> {Zero, Frac(1, 5)}],
          gq \in [1..n -> {Frac(4, 5), One}],
          cells \in [1..Len(NercNames2) -> [1..MaxCols -> Cells]] :
          con_mix_args =
              [egrid_regions |-> SubSeq(EgridNames, 1, n),
               nerc_region |-> nr,
               surplus_pool_trade_in |-> sp,
               generation_quantity |-> gq,
               nerc_region2 |-> NercNames2,
               trade_matrix |-> <<[j \in 1..MaxCols |-> "col"]>> \o cells]
    /\ consumption_dict = <<>>
    /\ conPc = "ready"
    /\ MixIdle
    /\ GraphIdle
    /\ TradeIdle
    /\ CfgIdle
    /\ CemsIdle

\* the call of consumption_mix_dictionary on the spreadsheet's columns
ConsumptionMixDictionary ==
    /\ conPc = "ready"
    /\ consumption_dict' = consumption_mix_dictionary(con_mix_args)
    /\ conPc' = "done"
    /\ UNCHANGED con_mix_args
    /\ UNCHANGED <<mixVars, graphVars, tradeVars>>
    /\ UNCHANGED <<cfgVars, cemsVars>>

ConNext == ConsumptionMixDictionary

SpecCon == ConInit /\ [][ConNext]_vars

\* the region has no trade data: its trade-in is 0, or no row of its NERC
\* region in the trade matrix has a cell that is neither empty nor zero
NoTradeData(a, reg) ==
    \/ a.surplus_pool_trade_in[reg] = Zero
    \/ ~\E nerc \in 1..Len(a.nerc_region2) :
            /\ a.nerc_region2[nerc] = a.nerc_region[reg]
            /\ \E j \in 1..MaxCols : a.trade_matrix[nerc + 1][j] \notin {None, Zero}

\* C21: every eGRID region has one consumption process, with one reference
\* exchange; without trade data its only input is its own generation with
\* amount 1, otherwise its inputs are the surplus pool (amount
\* surplus_pool_trade_in) and its own generation (amount generation_quantity).
C21_SurplusPoolConsumption ==
    conPc = "done" =>
        LET a == con_mix_args
        IN /\ Len(consumption_dict) = Len(a.egrid_regions)
           /\ \A reg \in 1..Len(a.egrid_regions) :
                LET region == a.egrid_regions[reg]
                    ex == consumption_dict[reg].v.exchanges
                    inputs == SelectSeq(ex, LAMBDA e : e.input)
                IN /\ consumption_dict[reg].k = "Consumption" \o region
                   /\ {j \in 1..Len(ex) : ex[j].qref} = {1}
                   /\ ~ex[1].input
                   /\ Len(ex) = Len(inputs) + 1
                   /\ IF NoTradeData(a, reg)
                      THEN /\ Len(inputs) = 1
                           /\ inputs[1].amount = One
                           /\ inputs[1].location = region
                      ELSE /\ Len(inputs) = 2
                           /\ inputs[1].amount = a.surplus_pool_trade_in[reg]
                           /\ inputs[1].location = a.nerc_region[reg]
                           /\ inputs[2].amount = a.generation_quantity[reg]
                           /\ inputs[2].location = region

\* one region with trade data and one without have been given their processes
C21_Witness ==
    /\ conPc = "done"
    /\ Len(con_mix_args.egrid_regions) = 2
    /\ NoTradeData(con_mix_args, 1)
    /\ ~NoTradeData(con_mix_args, 2)

----------------------------------------------------------------------------
(* model_config: build_model_class and check_model_specs *)

\* globals.COAL_MODEL_YEARS
COAL_MODEL_YEARS == {2020, 2023}

\* globals.RENEWABLE_VINTAGES
RENEWABLE_VINTAGES == {2016, 2020}

\* a slip: only the first test of the aggregation is made
CheckTrading_firstOnly(model_specs) ==
    IF model_specs.regional_aggregation \in {"FERC, BA, US"} /\ model_specs.EPA_eGRID_trading
    THEN "ConfigurationError"
    ELSE "ok"

\* lines 302-315: the aggregation must fit the EPA trading method; the first
\* test compares with the one string "FERC, BA, US"
CheckTrading(model_specs) ==
    IF model_specs.regional_aggregation \in {"FERC, BA, US"} /\ model_specs.EPA_eGRID_trading
    THEN "ConfigurationError"
    ELSE IF model_specs.regional_aggregation # "eGRID" /\ model_specs.EPA_eGRID_trading
    THEN "ConfigurationError"
    ELSE "ok"

\* lines 316-327: the years are compared when eGRID is not replaced and
\* upstream processes are included
CheckYears(model_specs) ==
    IF /\ ~model_specs.replace_egrid
       /\ model_specs.egrid_year # model_specs.eia_gen_year
       /\ model_specs.include_upstream_processes
    THEN "ConfigurationError"
    ELSE "ok"

\* lines 328-337
CheckVintages(model_specs) ==
    IF model_specs.coal_model_year \notin COAL_MODEL_YEARS THEN "ConfigurationError"
    ELSE IF model_specs.renewable_vintage \notin RENEWABLE_VINTAGES THEN "ConfigurationError"
    ELSE "ok"

\* check_model_specs(model_specs): "ok" or the exception raised
check_model_specs(model_specs) ==
    IF CheckTrading(model_specs) # "ok" THEN CheckTrading(model_specs)
    ELSE IF CheckYears(model_specs) # "ok" THEN CheckYears(model_specs)
    ELSE CheckVintages(model_specs)

\* ModelSpecs.__init__: the attributes are the values of the configuration
ModelSpecs(model_specs, model_name) ==
    [model_name |-> model_name,
     regional_aggregation |-> model_specs.regional_aggregation,
     egrid_year |-> model_specs.egrid_year,
     eia_gen_year |-> model_specs.eia_gen_year,
     replace_egrid |-> model_specs.replace_egrid,
     coal_model_year |-> model_specs.coal_model_year,
     renewable_vintage |-> model_specs.renewable_vintage,
     include_upstream_processes |-> model_specs.include_upstream_processes,
     EPA_eGRID_trading |-> model_specs.EPA_eGRID_trading]

\* no YAML file of the model's name
NoFile == [missing |-> TRUE]

\* the value of model_class while no object has been made
NoModel == <<>>

\* build_model_class: [raised, model_class]
build_model_class(yml, model_name) ==
    IF yml = NoFile THEN [raised |-> "ConfigurationError", model_class |-> NoModel]
    ELSE IF check_model_specs(yml) # "ok"
    THEN [raised |-> check_model_specs(yml), model_class |-> NoModel]
    ELSE [raised |-> "none", model_class |-> ModelSpecs(yml, model_name)]

Aggregations == {"eGRID", "BA", "FERC", "NERC", "US", "FERC, BA, US"}

Configurations ==
    [regional_aggregation : Aggregations,
     EPA_eGRID_trading : BOOLEAN,
     replace_egrid : BOOLEAN,
     egrid_year : {2016, 2020},
     eia_gen_year : {2016, 2020},
     include_upstream_processes : BOOLEAN,
     coal_model_year : {2020, 2019},
     renewable_vintage : {2020, 2019}]

CfgInit ==
    /\ specs \in Configurations \cup {NoFile}
    /\ model_class = NoModel
    /\ cfgPc = "ready"
    /\ MixIdle
    /\ GraphIdle
    /\ TradeIdle
    /\ ConIdle
    /\ CemsIdle

\* the call of build_model_class with the name of the model
BuildModelClass ==
    /\ cfgPc = "ready"
    /\ LET r == build_model_class(specs, "ELCI_1")
       IN /\ model_class' = r.model_class
          /\ cfgPc' = IF r.raised = "none" THEN "built" ELSE "raised"
    /\ UNCHANGED specs
    /\ UNCHANGED <<mixVars, graphVars, tradeVars>>
    /\ UNCHANGED <<conVars, cemsVars>>

CfgNext == BuildModelClass

SpecCfg == CfgInit /\ [][CfgNext]_vars

\* C22: a configuration with the EPA eGRID trading method and a regional
\* aggregation other than 'eGRID' is rejected with ConfigurationError, and no
\* ModelSpecs object is made from it.
C22_EpaTradingNeedsEgrid ==
    (/\ cfgPc # "ready"
     /\ specs # NoFile
     /\ specs.EPA_eGRID_trading
     /\ specs.regional_aggregation # "eGRID")
        => (/\ cfgPc = "raised"
            /\ model_class = NoModel
            /\ check_model_specs(specs) = "ConfigurationError")

\* build_model_class has rejected a configuration with EPA trading and the
\* BA aggregation whose other settings are valid
C22_Witness ==
    /\ cfgPc = "raised"
    /\ specs # NoFile
    /\ specs.EPA_eGRID_trading
    /\ specs.regional_aggregation = "BA"
    /\ CheckYears(specs) = "ok"
    /\ CheckVintages(specs) = "ok"

\* C23: with replace_egrid true, an eGRID year different from the
\* EIA generation year is rejected with ConfigurationError.
C23_YearsCheckedWhenReplacing ==
    (/\ cfgPc # "ready"
     /\ specs # NoFile
     /\ specs.replace_egrid
     /\ specs.egrid_year # specs.eia_gen_year)
        => cfgPc = "raised"

----------------------------------------------------------------------------
(* Writing dictionaries again with new content (run_epa_trade) *)

\* a consumption process, with any provider or none, alone or with its supplier
UpdateInputs == LinkInputs

UpdateInit ==
    /\ processes \in UpdateInputs
    /\ processes0 = processes
    /\ archive = NoArchive
    /\ lastOp = "none"
    /\ writes = 0
    /\ product_systems = <<>>
    /\ MixIdle
    /\ TradeIdle
    /\ AuxIdle

\* __init__.py lines 680-693: between two writes the caller supplies the
\* dictionaries of the same processes with other content (default providers
\* filled in, other amounts); processes0 keeps the dictionaries as supplied
ChangeContent ==
    /\ lastOp = "write"
    /\ writes < MaxWrites
    /\ \E new \in UpdateInputs :
        /\ Len(new) = Len(processes)
        /\ \A i \in 1..Len(new) : ProcUid(new[i]) = processes[i].uuid
        /\ new # processes0
        /\ processes' = new
        /\ processes0' = new
    /\ lastOp' = "changed"
    /\ UNCHANGED <<archive, writes, product_systems>>
    /\ UNCHANGED mixVars
    /\ UNCHANGED tradeVars
    /\ UNCHANGED auxVars

UpdateNext ==
    \/ Write
    \/ ChangeContent

SpecUpdate == UpdateInit /\ [][UpdateNext]_vars

\* the exchanges _exchange_list builds from the dictionary's exchange list
ExchangesOf(d) == exchange_list(d.exchanges, 1, <<>>, root_entity_dict).r_list

\* C24: after a write, the process stored under the identifier of each
\* dictionary written reflects the content of that dictionary as supplied,
\* also when the identifier was in the archive before.
C24_WriteStoresLatest ==
    lastOp = "write" =>
        \A i \in 1..Len(processes0) :
            \E k \in 1..Len(archive.Process) :
                /\ archive.Process[k].id = ProcUid(processes0[i])
                /\ archive.Process[k].exchanges = ExchangesOf(processes0[i])

----------------------------------------------------------------------------
(* cems_data: the download retry protocol and update of the datastore *)

CemsStates == <<"al", "tx">>

\* paths_for_year: the files of the states, state by state, quarter by quarter
RECURSIVE paths_for_year(_)
paths_for_year(states) ==
    IF states = <<>> THEN <<>>
    ELSE [q \in 1..MaxQtr |-> <<Head(states), q>>] \o paths_for_year(Tail(states))

\* every file of the year's directory
CemsFiles == {paths_for_year(CemsStates)[i] : i \in 1..Len(paths_for_year(CemsStates))}

\* source_url: the ftp URL of the state's quarter
source_url(f) == <<"ftp://newftp.epa.gov", f[1], f[2]>>

SrcUrls(files) == [i \in 1..Len(files) |-> source_url(files[i])]

CemsUrls == {source_url(f) : f \in CemsFiles}

\* line 193: tmp_to_retry.append(tmp_to_retry) appends the list itself, not
\* the file; this is the list as an element of the list
TmpToRetryList == <<"tmp_to_retry", 0>>

\* okAt[url]: the attempt from which the URL can be retrieved, 0 for never
Retrieved(okAt, url, round) == okAt[url] # 0 /\ okAt[url] <= round

NoRound == [raised |-> "none", tmp |-> <<>>, url_to_retry |-> <<>>, tmp_to_retry |-> <<>>]

\* lines 188-193: one pass over zip(src_urls, tmp_files) with urlretrieve. A
\* URLError (raised before the file is opened) is caught; a retrieved URL is
\* written to filename, and open(filename) of a list raises TypeError
RECURSIVE DefaultLoop(_, _, _, _, _, _)
DefaultLoop(src_urls, tmp_files, i, round, okAt, r) ==
    IF i > Len(src_urls) \/ i > Len(tmp_files) THEN r
    ELSE IF Retrieved(okAt, src_urls[i], round)
    THEN IF tmp_files[i] = TmpToRetryList
         THEN [r EXCEPT !.raised = "TypeError"]
         ELSE DefaultLoop(src_urls, tmp_files, i + 1, round, okAt,
                          [r EXCEPT !.tmp[tmp_files[i]] = "valid"])
    ELSE DefaultLoop(src_urls, tmp_files, i + 1, round, okAt,
                     [r EXCEPT !.url_to_retry = Append(@, src_urls[i]),
                               !.tmp_to_retry = Append(@, TmpToRetryList)])

\* lines 238-246: one pass with ftp.retrbinary; open(tmp_file, "wb") makes
\* the file empty before the transfer, and a failed transfer leaves it empty
\* or partial
RECURSIVE FtpLoop(_, _, _, _, _, _)
FtpLoop(src_urls, tmp_files, i, round, okAt, r) ==
    IF i > Len(src_urls) \/ i > Len(tmp_files) THEN r
    ELSE IF Retrieved(okAt, src_urls[i], round)
    THEN FtpLoop(src_urls, tmp_files, i + 1, round, okAt,
                 [r EXCEPT !.tmp[tmp_files[i]] = "valid"])
    ELSE FtpLoop(src_urls, tmp_files, i + 1, round, okAt,
                 [r EXCEPT !.tmp[tmp_files[i]] = "partial",
                           !.url_to_retry = Append(@, src_urls[i]),
                           !.tmp_to_retry = Append(@, tmp_files[i])])

\* one call of _download_default (ftp FALSE) or _download_FTP (ftp TRUE) and
\* the calls it makes of itself; rounds lists the calls made
RECURSIVE download_rounds(_, _, _, _, _, _, _, _)
download_rounds(ftp, src_urls, tmp_files, allow_retry, round, okAt, tmp, rounds) ==
    LET r0 == [NoRound EXCEPT !.tmp = tmp]
        r == IF ftp THEN FtpLoop(src_urls, tmp_files, 1, round, okAt, r0)
             ELSE DefaultLoop(src_urls, tmp_files, 1, round, okAt, r0)
        rs == Append(rounds, [src_urls |-> src_urls, tmp_files |-> tmp_files,
                              allow_retry |-> allow_retry,
                              url_to_retry |-> r.url_to_retry,
                              tmp_to_retry |-> r.tmp_to_retry])
    IN IF r.raised # "none" THEN [rounds |-> rs, ended |-> r.raised, tmp |-> r.tmp]
       ELSE IF Len(r.url_to_retry) = 0 THEN [rounds |-> rs, ended |-> "ok", tmp |-> r.tmp]
       ELSE IF allow_retry /\ Len(src_urls) = 1
       THEN download_rounds(ftp, r.url_to_retry, r.tmp_to_retry, FALSE,
                            round + 1, okAt, r.tmp, rs)
       ELSE IF allow_retry /\ src_urls # r.url_to_retry
       THEN download_rounds(ftp, r.url_to_retry, r.tmp_to_retry, allow_retry,
                            round + 1, okAt, r.tmp, rs)
       ELSE [rounds |-> rs, ended |-> "warned", tmp |-> r.tmp]

\* _download_default(src_urls, tmp_files)
download_default(src_urls, tmp_files, okAt, tmp) ==
    download_rounds(FALSE, src_urls, tmp_files, TRUE, 1, okAt, tmp, <<>>)

\* _download_FTP(src_urls, tmp_files)
download_FTP(src_urls, tmp_files, okAt, tmp) ==
    download_rounds(TRUE, src_urls, tmp_files, TRUE, 1, okAt, tmp, <<>>)

\* download(source, year, states): every URL of source_url is an ftp URL, so
\* the files of the states go through _download_FTP into the tmp directory
download(states, okAt, tmp) ==
    download_FTP(SrcUrls(paths_for_year(states)), paths_for_year(states), okAt, tmp)

\* check_if_need_update: some file is missing, or some file exists and
\* clobber is set
check_if_need_update(ds, states, clobber) ==
    \E i \in 1..Len(paths_for_year(states)) :
        ds[paths_for_year(states)[i]] = "absent" \/ clobber

\* lines 696-700: the tmp files moved to the datastore in list order
RECURSIVE MoveFiles(_, _, _, _)
MoveFiles(files, i, ds, tmp) ==
    IF i > Len(files) THEN [raised |-> "none", ds |-> ds, tmp |-> tmp]
    ELSE IF tmp[files[i]] = "absent"
    THEN [raised |-> "FileNotFoundError", ds |-> ds, tmp |-> tmp]
    ELSE MoveFiles(files, i + 1, [ds EXCEPT ![files[i]] = tmp[files[i]]],
                   [tmp EXCEPT ![files[i]] = "absent"])

\* organize, no_download False: the year's directory is removed with all its
\* files, made again, and the tmp files of the states are moved into it
organize(states, ds, tmp) ==
    MoveFiles(paths_for_year(states), 1, [f \in DOMAIN ds |-> "absent"], tmp)

\* update(source, year, states, clobber), no_download False
update(states, clobber, okAt, ds, tmp) ==
    IF ~check_if_need_update(ds, states, clobber)
    THEN [ds |-> ds, tmp |-> tmp, dl |-> <<>>, raised |-> "none"]
    ELSE LET d == download(states, okAt, tmp)
             o == organize(states, ds, d.tmp)
         IN [ds |-> o.ds, tmp |-> o.tmp, dl |-> d, raised |-> o.raised]

\* the state lists of a call: one state or both
StateLists == {<<CemsStates[1]>>, <<CemsStates[2]>>, CemsStates}

CemsInit ==
    /\ datastore \in [CemsFiles -> {"absent", "valid"}]
    /\ tmpdir = [f \in CemsFiles |-> "absent"]
    /\ dl = <<>>
    /\ upd = <<>>
    /\ cemsPc = "ready"
    /\ MixIdle
    /\ GraphIdle
    /\ TradeIdle
    /\ ConIdle
    /\ CfgIdle

\* a call of _download_default or _download_FTP with 1..MaxUrls URLs and
\* their tmp files; each URL is retrievable from some attempt on, or never
Download ==
    /\ cemsPc = "ready"
    /\ \E n \in 1..MaxUrls, ftp \in BOOLEAN :
       \E okAt \in [CemsUrls -> 0..(n + 1)] :
          LET files == SubSeq(paths_for_year(CemsStates), 1, n)
              d == IF ftp THEN download_FTP(SrcUrls(files), files, okAt, tmpdir)
                   ELSE download_default(SrcUrls(files), files, okAt, tmpdir)
          IN /\ n <= Len(paths_for_year(CemsStates))
             /\ \A u \in CemsUrls :
                    (\A i \in 1..n : u # source_url(files[i])) => okAt[u] = 0
             /\ dl' = [ftp |-> ftp, okAt |-> okAt, rounds |-> d.rounds, ended |-> d.ended]
             /\ tmpdir' = d.tmp
    /\ cemsPc' = "downloaded"
    /\ UNCHANGED <<datastore, upd>>
    /\ UNCHANGED <<mixVars, graphVars, tradeVars>>
    /\ UNCHANGED <<conVars, cfgVars>>

\* a call of update('epacems', year, states, clobber); each URL is
\* retrievable at the first attempt, at the second, or never
Update ==
    /\ cemsPc = "ready"
    /\ \E states \in StateLists, clobber \in BOOLEAN :
       \E okAt \in [CemsUrls -> 0..2] :
          LET r == update(states, clobber, okAt, datastore, tmpdir)
          IN /\ \A u \in CemsUrls :
                    (\A i \in 1..Len(paths_for_year(states)) :
                        u # source_url(paths_for_year(states)[i])) => okAt[u] = 0
             /\ datastore' = r.ds
             /\ tmpdir' = r.tmp
             /\ dl' = IF r.dl = <<>> THEN <<>>
                      ELSE [ftp |-> TRUE, okAt |-> okAt, rounds |-> r.dl.rounds,
                            ended |-> r.dl.ended]
             /\ upd' = [states |-> states, clobber |-> clobber, okAt |-> okAt,
                        ds_before |-> datastore, raised |-> r.raised]
    /\ cemsPc' = "updated"
    /\ UNCHANGED <<mixVars, graphVars, tradeVars>>
    /\ UNCHANGED <<conVars, cfgVars>>

CemsNext ==
    \/ Download
    \/ Update

SpecCems == CemsInit /\ [][CemsNext]_vars

\* C25: the protocol ends with "ok" or a warning, never an exception; one URL
\* that keeps failing is tried exactly twice and then warned about; with
\* several URLs every further round takes the URLs that failed in the round
\* before, of which at least one URL succeeded.
C25_RetryProtocol ==
    cemsPc = "downloaded" =>
        /\ dl.ended \in {"ok", "warned"}
        /\ (Len(dl.rounds[1].src_urls) = 1 /\ dl.okAt[dl.rounds[1].src_urls[1]] = 0)
              => (Len(dl.rounds) = 2 /\ dl.ended = "warned")
        /\ Len(dl.rounds[1].src_urls) > 1 =>
              \A k \in 2..Len(dl.rounds) :
                  /\ dl.rounds[k].src_urls = dl.rounds[k - 1].url_to_retry
                  /\ Len(dl.rounds[k - 1].url_to_retry) < Len(dl.rounds[k - 1].src_urls)

\* the file paired with the URL in the first call
FileOfUrl(u) == CHOOSE f \in CemsFiles : source_url(f) = u

\* C30: in every retry of _download_default each URL is paired with the tmp
\* file it was paired with in the first call.
C30_RetryListsAligned ==
    (cemsPc = "downloaded" /\ ~dl.ftp) =>
        \A k \in 1..Len(dl.rounds) :
            /\ Len(dl.rounds[k].tmp_files) = Len(dl.rounds[k].src_urls)
            /\ \A i \in 1..Len(dl.rounds[k].src_urls) :
                   dl.rounds[k].tmp_files[i] = FileOfUrl(dl.rounds[k].src_urls[i])

\* the file was asked for by the update and retrieved
DownloadSucceeded(f) ==
    /\ \E i \in 1..Len(paths_for_year(upd.states)) : paths_for_year(upd.states)[i] = f
    /\ upd.okAt[source_url(f)] # 0

\* C29: after update returns, no file of the datastore is empty or partial,
\* a file that was not there before is there only if its download succeeded,
\* and every file that was valid before is still valid.
C29_OnlySuccessfulDownloadsStored ==
    cemsPc = "updated" =>
        \A f \in CemsFiles :
            /\ datastore[f] # "partial"
            /\ (datastore[f] = "valid" /\ upd.ds_before[f] = "absent") => DownloadSucceeded(f)
            /\ upd.ds_before[f] = "valid" => datastore[f] = "valid"

----------------------------------------------------------------------------
(* Product systems over supply chains with cycles and missing providers *)

ChainCategory == S("22: utilities")

ChainNames ==
    <<S("Electricity; at user; consumption mix - A - BA"), S("mix one"), S("mix two")>>

\* the provider dictionary naming the process of that name; "elsewhere" is
\* written nowhere
ChainProvider(name) == ProviderDict(NoId, name, ChainCategory, LocStr(S("us")))

ChainProviders == {ChainProvider(ChainNames[k]) : k \in 1..3} \cup {ChainProvider(S("elsewhere"))}

\* a process with its reference output and an input from each provider
ChainProcess(name, pvs) ==
    ProcDict(NoId, name, ChainCategory, LocStr(S("us")),
             <<RefExchange>> \o [k \in 1..Len(pvs) |-> ExchDict("prod", 1, TRUE, FALSE, pvs[k])])

\* the 'at user' mix with one or two providers, and two more processes with
\* at most one provider each: chains, cycles, a provider named twice, a
\* process providing to itself, providers that are in no archive
ChainInputs ==
    {<<ChainProcess(ChainNames[1], p1), ChainProcess(ChainNames[2], p2),
       ChainProcess(ChainNames[3], p3)>> :
        p1 \in UNION {[1..n -> ChainProviders] : n \in 1..2},
        p2 \in UNION {[1..n -> ChainProviders] : n \in 0..1},
        p3 \in UNION {[1..n -> ChainProviders] : n \in 0..1}}

ChainInit ==
    /\ processes \in ChainInputs
    /\ processes0 = processes
    /\ archive = NoArchive
    /\ lastOp = "none"
    /\ writes = 0
    /\ product_systems = <<>>
    /\ MixIdle
    /\ TradeIdle
    /\ AuxIdle

ChainNext ==
    \/ Write
    \/ BuildProductSystems

SpecChain == ChainInit /\ [][ChainNext]_vars

\* the default providers of the input exchanges of the archive's process
ProvidersOf(a, pid) ==
    {ZipRead(a, pid).exchanges[j].default_provider :
        j \in {j \in 1..Len(ZipRead(a, pid).exchanges) :
                  /\ ZipRead(a, pid).exchanges[j].is_input
                  /\ ZipRead(a, pid).exchanges[j].default_provider # NoId}}

\* the processes of the archive reachable from those of set R
RECURSIVE ReachableFrom(_, _)
ReachableFrom(a, R) ==
    LET more == R \cup {q \in UNION {ProvidersOf(a, pid) : pid \in R} :
                            ZipRead(a, q) # NoProcess}
    IN IF more = R THEN R ELSE ReachableFrom(a, more)

RefIds(refs) == [k \in 1..Len(refs) |-> refs[k].id]

C27_LinksWithinProcessList ==
    lastOp = "build" =>
        \A k \in 1..Len(product_systems) :
            \A j \in 1..Len(product_systems[k].process_links) :
                /\ InSeq(product_systems[k].process_links[j].process,
                         RefIds(product_systems[k].processes))
                /\ InSeq(product_systems[k].process_links[j].provider,
                         RefIds(product_systems[k].processes))

----------------------------------------------------------------------------
(* The entity stores in memory *)

\* the two lists of a store agree and hold no identifier twice
StoreConsistent(store) ==
    /\ Len(store.ids) = Len(store.objs)
    /\ \A i \in 1..Len(store.ids) : store.ids[i] = store.objs[i].id
    /\ NoDuplicates(store.ids)

\* C28: whenever write is called, the Process and Flow stores of the
\* root-entity dictionary it has built at the end of its loop (lines 386-398,
\* before _save_to_json) have lists of equal length, with ids[i] the
\* identifier of objs[i] and no identifier twice.
C28_StoresConsistentAfterWriteLoop ==
    [][(lastOp' = "write" /\ writes' = writes + 1) =>
          /\ StoreConsistent(write_loop(processes, 1, init_root_entities(archive)).spec_map.Process)
          /\ StoreConsistent(write_loop(processes, 1, init_root_entities(archive)).spec_map.Flow)]_vars

====
